---- MODULE Spec2Model ----
(***************************************************************************)
(* Handle lifecycle, statement/rows/transaction state machine and the      *)
(* cancellation bridge of the odbc database/sql driver.                    *)
(*                                                                         *)
(* The repository holds several generations of the same files.  Three of  *)
(* them are modelled as separate specifications over shared connection    *)
(* and handle state:                                                      *)
(*   SpecBG  the context-aware generation (stmt_go18.go, driver_go18.go,  *)
(*           part_012, part_009 second half, part_004 second half) whose  *)
(*           execute runs on a worker and is cancelled in the background; *)
(*   SpecOS  the ODBCStmt generation (conn.go, tx.go, rows.go, part_010,  *)
(*           part_016) with the usedByStmt/usedByRows ownership flags;    *)
(*   SpecST  the generation of stmt.go, where the ownership flags and the *)
(*           mutex live in Stmt itself.                                   *)
(*                                                                         *)
(* Further specifications each run one function over bounded inputs      *)
(* while the driver state stands still:                                   *)
(*   SpecNE  NewError reading the diagnostic records of a handle;         *)
(*   SpecBC  bindColumns over the result sets of one statement handle;    *)
(*   SpecGD  NonBindableColumn.Value reading a payload through SQLGetData;*)
(*   SpecBV  BindableColumn.Value and BufferLen.IsNull on a fetched row;  *)
(*   SpecBP  Parameter.BindValue for one parameter slot.                  *)
(* Two more follow one connection or one driver:                          *)
(*   SpecTX  BeginTx, Commit and Rollback with the connection attributes; *)
(*   SpecOP  Driver.Open called by several goroutines.                    *)
(*   SpecSC  the Stats handle counter updated by concurrent tasks;       *)
(*   SpecEX  one Stmt.Exec or Stmt.Query call of stmt.go, from the        *)
(*           argument check to the result-set walk.                       *)
(* SpecSTFair and SpecOSFair add weak fairness to SpecST and SpecOS for   *)
(* the properties that say a call completes.                              *)
(***************************************************************************)
EXTENDS Integers, Sequences, FiniteSets, TLC

\* ------------------------------------------------------------------------
\* Bounds
\* ------------------------------------------------------------------------
\* statement handles SQLAllocHandle hands out on the connection of SpecBG
MaxStmt == 1
\* sqlExecuteAsync calls made on the connection of SpecBG
MaxExec == 1
\* statement handles SQLAllocHandle hands out on the connection of SpecOS
\* and of SpecST
MaxHandle == 2

\* ------------------------------------------------------------------------
\* Program constants
\* ------------------------------------------------------------------------
SQL_NULL_HANDLE == 0
SQL_HANDLE_DBC == 2
SQL_HANDLE_STMT == 3

NULL == SQL_NULL_HANDLE
\* the one connection handle SQLAllocHandle(SQL_HANDLE_DBC) returned
ConnHandle == SQL_NULL_HANDLE + 1

\* classes of SQLRETURN: success (or success-with-info), an error whose
\* diagnostic records do not hold 08S01, an error with an 08S01 record
RetCodes == {"ok", "err", "lost"}
ErrCodes == {"err", "lost"}

VARIABLES
    c,            \* Conn: h, tx, bad
    closingInBG,  \* Conn.closingInBG
    hs,           \* driver manager's allocated handles, the SQLFreeHandle
                  \* calls made on non-null handles, and drv.Stats
    nextH,        \* next handle value SQLAllocHandle returns
    hostpc,       \* the database/sql side: "idle", "wait" (blocked in a
                  \* call), "closed" (Conn.Close was called)
    lastRet,      \* what the last driver call returned to database/sql
    stmts,        \* Stmt objects
    rowsHeld,     \* statements whose Rows database/sql still holds
    execs,        \* the calls that run in steps: one record per
                  \* sqlExecuteAsync call (SpecBG), per query goroutine of
                  \* Conn.QueryContext (SpecOS), per Stmt call that waits
                  \* for the statement's mutex (SpecST)
    curExec,      \* the record of execs the host is blocked on
    ctxDone,      \* ctx.Done() of the call in progress is closed
    odbc,         \* ODBCStmt objects of SpecOS: h, usedByStmt, usedByRows
    txHeld,       \* database/sql holds the Tx a successful Begin returned
    errSeen,      \* some call of SpecOS has returned an error
    diag,         \* NewError: the handle's diagnostic records and the loop
    cols,         \* bindColumns: the result sets, Stmt.cols and the columns
                  \* bound on the statement handle
    gd,           \* NonBindableColumn.Value: the column's data and the loop
    bcol,         \* BindableColumn.Value: the column, its length cell and
                  \* what the call returned
    par,          \* Parameter.BindValue: the parameter, the value and what
                  \* was passed to SQLBindParameter
    opens,        \* Driver.Open called from several goroutines: the driver
                  \* and each call's position
    attrs,        \* the attributes the driver manager holds for the
                  \* connection handle: autocommit and access mode
    tasks,        \* goroutines that each prepare, execute and close their
                  \* own statement, and drv.Stats as they update it
    ex            \* one Stmt.Exec / Stmt.Query call followed through
                  \* exec, the bind loop and the result-set walk

varsOS == <<odbc, txHeld, errSeen>>
varsFn == <<diag, cols, gd, bcol, par, opens, attrs, tasks, ex>>
vars == <<c, closingInBG, hs, nextH, hostpc, lastRet, stmts, rowsHeld, execs,
          curExec, ctxDone, odbc, txHeld, errSeen, diag, cols, gd, bcol, par,
          opens, attrs, tasks, ex>>

\* no call of NewError, bindColumns, NonBindableColumn.Value,
\* BindableColumn.Value, BindValue or a concurrent Open is modelled in the
\* specifications of the driver calls, and the connection attributes are
\* not followed there
NoCallFn == [pc |-> "none"]
FnIdle ==
    /\ diag = NoCallFn /\ cols = NoCallFn /\ gd = NoCallFn
    /\ bcol = NoCallFn /\ par = NoCallFn /\ opens = NoCallFn /\ attrs = NoCallFn
    /\ tasks = NoCallFn /\ ex = NoCallFn

\* ------------------------------------------------------------------------
\* Errors and handles
\* ------------------------------------------------------------------------
IsError(ret) == ret # "ok"

\* NewError: the BadConnection sentinel when a record has state 08S01
NewError(ret) == IF ret = "lost" THEN "ErrBadConn" ELSE "Error"

\* Conn.newError: NewError, and mark the connection bad on ErrBadConn
newError(conn, ret) ==
    [c |-> IF NewError(ret) = "ErrBadConn" THEN [conn EXCEPT !.bad = TRUE] ELSE conn,
     err |-> NewError(ret)]

updateHandleCount(h, ht, change) ==
    IF ht = SQL_HANDLE_DBC THEN [h EXCEPT !.ConnCount = @ + change]
    ELSE IF ht = SQL_HANDLE_STMT THEN [h EXCEPT !.StmtCount = @ + change]
    ELSE h

\* SQLAllocHandle succeeded: the driver manager hands out a fresh handle
AllocHandle(h, ht) ==
    updateHandleCount([h EXCEPT !.alloc = @ \cup {nextH}], ht, 1)

\* SQLFreeHandle as the driver manager answers it: SQL_INVALID_HANDLE for a
\* handle it does not hold, else fr (success or SQL_ERROR)
SQLFreeHandle(h, handle, fr) == IF handle \in h.alloc THEN fr ELSE "invalid"

\* releaseHandle that forgets drv.Stats.updateHandleCount(ht, -1)
releaseHandle_NoCount(h, handle, ht, fr) ==
    LET ret == SQLFreeHandle(h, handle, fr)
        logged == [h EXCEPT !.freeLog = IF handle # NULL THEN Append(@, handle) ELSE @]
    IN IF ret = "ok"
       THEN [hs |-> [logged EXCEPT !.alloc = @ \ {handle}], err |-> "nil"]
       ELSE [hs |-> logged, err |-> "Error"]

\* releaseHandle: free, and decrement the counter only when the free worked
releaseHandle(h, handle, ht, fr) ==
    LET ret == SQLFreeHandle(h, handle, fr)
        logged == [h EXCEPT !.freeLog = IF handle # NULL THEN Append(@, handle) ELSE @]
    IN IF ret = "ok"
       THEN [hs |-> updateHandleCount([logged EXCEPT !.alloc = @ \ {handle}], ht, -1),
             err |-> "nil"]
       ELSE [hs |-> logged, err |-> "Error"]

NoTx == [active |-> FALSE, ro |-> FALSE]

\* ------------------------------------------------------------------------
\* Transactions
\* ------------------------------------------------------------------------
\* Conn.setAutoCommitAttr (tx.go): ret is SQLSetConnectAttr's return, or
\* "hook" when the testBeginErr test hook is set
setAutoCommitAttr(conn, ret) ==
    IF ret = "hook" THEN [c |-> conn, err |-> "Error", calls |-> {}]
    ELSE IF IsError(ret)
    THEN [c |-> newError(conn, ret).c, err |-> NewError(ret), calls |-> {"SQLSetConnectAttr"}]
    ELSE [c |-> conn, err |-> "nil", calls |-> {"SQLSetConnectAttr"}]

\* endTx that leaves the bad flag alone when SQLEndTran fails
endTx_NoBadOnEndTran(conn, retEnd, retAuto) ==
    IF ~conn.tx.active
    THEN [c |-> conn, err |-> "Error", calls |-> {}, failed |-> "none"]
    ELSE IF IsError(retEnd)
    THEN [c |-> newError(conn, retEnd).c,
          err |-> NewError(retEnd), calls |-> {"SQLEndTran"}, failed |-> "SQLEndTran"]
    ELSE LET a == setAutoCommitAttr([conn EXCEPT !.tx = NoTx], retAuto)
         IN IF a.err # "nil"
            THEN [c |-> [a.c EXCEPT !.bad = TRUE], err |-> a.err,
                  calls |-> {"SQLEndTran"} \cup a.calls, failed |-> "setAutoCommitAttr"]
            ELSE [c |-> a.c, err |-> "nil",
                  calls |-> {"SQLEndTran"} \cup a.calls, failed |-> "none"]

\* Conn.endTx (tx.go): retEnd is SQLEndTran's return, retAuto the outcome of
\* setAutoCommitAttr(ON)
endTx(conn, retEnd, retAuto) ==
    IF ~conn.tx.active
    THEN [c |-> conn, err |-> "Error", calls |-> {}, failed |-> "none"]
    ELSE IF IsError(retEnd)
    THEN [c |-> newError([conn EXCEPT !.bad = TRUE], retEnd).c,
          err |-> NewError(retEnd), calls |-> {"SQLEndTran"}, failed |-> "SQLEndTran"]
    ELSE LET a == setAutoCommitAttr([conn EXCEPT !.tx = NoTx], retAuto)
         IN IF a.err # "nil"
            THEN [c |-> [a.c EXCEPT !.bad = TRUE], err |-> a.err,
                  calls |-> {"SQLEndTran"} \cup a.calls, failed |-> "setAutoCommitAttr"]
            ELSE [c |-> a.c, err |-> "nil",
                  calls |-> {"SQLEndTran"} \cup a.calls, failed |-> "none"]

\* Conn.BeginTx (part_012): opts.iso says the isolation level is one of the
\* four mapped ones, opts.ro is ReadOnly; fail names the step that fails
\* ("hook" is testBeginErr) and code its SQLRETURN class
BeginStages(opts) ==
    {"none", "hook", "autocommit"} \cup (IF opts.iso THEN {"isolation"} ELSE {})
        \cup (IF opts.ro THEN {"access"} ELSE {})

\* BeginTx that marks the connection bad only when autocommit cannot be
\* switched off, not when the isolation level or the access mode fails
BeginTx_BadOnAutocommitOnly(conn, opts, fail, code) ==
    IF conn.bad THEN [c |-> conn, err |-> "ErrBadConn", calls |-> {}]
    ELSE IF fail = "hook"
    THEN [c |-> [conn EXCEPT !.bad = TRUE], err |-> "Error", calls |-> {}]
    ELSE IF conn.tx.active
    THEN [c |-> conn, err |-> "ErrTXAlreadyStarted", calls |-> {}]
    ELSE LET c1 == [conn EXCEPT !.tx = [active |-> TRUE, ro |-> opts.ro]]
         IN IF fail = "none"
            THEN [c |-> c1, err |-> "nil", calls |-> {"SQLSetConnectAttr"}]
            ELSE [c |-> [c1 EXCEPT !.bad = (fail = "autocommit")], err |-> NewError(code),
                  calls |-> {"SQLSetConnectAttr"}]

BeginTx(conn, opts, fail, code) ==
    IF conn.bad THEN [c |-> conn, err |-> "ErrBadConn", calls |-> {}]
    ELSE IF fail = "hook"
    THEN [c |-> [conn EXCEPT !.bad = TRUE], err |-> "Error", calls |-> {}]
    ELSE IF conn.tx.active
    THEN [c |-> conn, err |-> "ErrTXAlreadyStarted", calls |-> {}]
    ELSE LET c1 == [conn EXCEPT !.tx = [active |-> TRUE, ro |-> opts.ro]]
         IN IF fail = "none"
            THEN [c |-> c1, err |-> "nil", calls |-> {"SQLSetConnectAttr"}]
            ELSE [c |-> [c1 EXCEPT !.bad = TRUE], err |-> NewError(code),
                  calls |-> {"SQLSetConnectAttr"}]

\* what the driver manager can answer for a call on handle: any class for
\* a handle it holds, SQL_INVALID_HANDLE (an error without 08S01) otherwise
OdbcRet(h, handle) == IF handle \in h.alloc THEN RetCodes ELSE {"err"}
FreeRet == {"ok", "err"}
\* the inputs an ODBC call can draw its answer from, when the call is made
\* at all (one fixed answer otherwise, so that no step is counted twice)
RetIf(made, h, handle) == IF made THEN OdbcRet(h, handle) ELSE {"ok"}
CodeIf(made) == IF made THEN ErrCodes ELSE {"err"}
FreeIf(made) == IF made THEN FreeRet ELSE {"ok"}

\* what a driver call returned to database/sql: the call, its result, the
\* bad flag when it was called, the ODBC functions it called and the step
\* that failed
RetF(op, res, bad, calls, failed) ==
    [op |-> op, res |-> res, badAtCall |-> bad, calls |-> calls, failed |-> failed]
Ret(op, res, bad, calls) == RetF(op, res, bad, calls, "none")

\* ------------------------------------------------------------------------
\* SpecBG: connection
\* ------------------------------------------------------------------------
\* Conn.PrepareContext (part_012): stage names the step that fails, code its
\* SQLRETURN class, fr what SQLFreeHandle answers in the deferred release
PrepareStages == {"none", "alloc", "prepare", "params"}

PrepareContext(conn, h, stage, code, fr) ==
    IF conn.bad THEN [c |-> conn, hs |-> h, err |-> "ErrBadConn", handle |-> NULL]
    ELSE IF stage = "alloc"
    THEN [c |-> newError(conn, code).c, hs |-> h, err |-> NewError(code), handle |-> NULL]
    ELSE LET h1 == AllocHandle(h, SQL_HANDLE_STMT)
         IN IF stage = "prepare"
            THEN [c |-> newError(conn, code).c,
                  hs |-> releaseHandle(h1, nextH, SQL_HANDLE_STMT, fr).hs,
                  err |-> NewError(code), handle |-> NULL]
            ELSE IF stage = "params"
            THEN [c |-> conn, hs |-> releaseHandle(h1, nextH, SQL_HANDLE_STMT, fr).hs,
                  err |-> NewError(code), handle |-> NULL]
            ELSE [c |-> conn, hs |-> h1, err |-> "nil", handle |-> nextH]

\* Conn.close (part_004): roll an active transaction back, SQLDisconnect,
\* and in the deferred function clear c.h and release the handle read at
\* the start.  closeDisconnect is the part up to SQLDisconnect's return,
\* closeRelease the deferred function.
closeDisconnect(conn, retEnd, retAuto, retDisc) ==
    LET c1 == IF conn.tx.active THEN endTx(conn, retEnd, retAuto).c ELSE conn
    IN [h |-> c1.h,
        c |-> IF IsError(retDisc) THEN newError(c1, retDisc).c ELSE c1,
        err |-> IF IsError(retDisc) THEN NewError(retDisc) ELSE "nil"]

closeRelease(conn, h, handle, err, fr) ==
    LET r == releaseHandle(h, handle, SQL_HANDLE_DBC, fr)
    IN [c |-> [conn EXCEPT !.h = NULL], hs |-> r.hs,
        err |-> IF err = "nil" THEN r.err ELSE err]

EmptyODBCStmt == [h |-> NULL, usedByStmt |-> FALSE, usedByRows |-> FALSE]
EmptyStmt == [alive |-> FALSE, internal |-> FALSE, h |-> NULL, rows |-> FALSE]
EmptyExec == [used |-> FALSE, s |-> 1, kind |-> "exec", badAtCall |-> FALSE,
              wpc |-> "done", err |-> "nil", cancelled |-> FALSE,
              cpc |-> "none", lh |-> NULL, res |-> "none"]

\* the Stmt object that owns handle nextH: statements are numbered in the
\* order SQLAllocHandle hands their handles out
NewStmt == nextH - ConnHandle
CanAlloc == NewStmt <= MaxStmt
FreeExecSlots == {e \in 1..MaxExec : ~execs[e].used}
NewSlot(S) == CHOOSE x \in S : \A y \in S : x <= y

\* Conn.Prepare / Conn.PrepareContext called by database/sql
HostPrepare ==
    /\ hostpc = "idle"
    /\ c.bad \/ CanAlloc
    /\ \E stage \in (IF c.bad THEN {"none"} ELSE PrepareStages) :
       \E code \in CodeIf(stage # "none"), fr \in FreeIf(stage \in {"prepare", "params"}) :
         LET r == PrepareContext(c, hs, stage, code, fr)
             s == NewStmt
         IN /\ c' = r.c
            /\ hs' = r.hs
            /\ nextH' = IF c.bad \/ stage = "alloc" THEN nextH ELSE nextH + 1
            /\ stmts' = IF r.err = "nil"
                        THEN [stmts EXCEPT ![s] = [alive |-> TRUE, internal |-> FALSE,
                                                   h |-> r.handle, rows |-> FALSE]]
                        ELSE stmts
            /\ lastRet' = Ret("Prepare", r.err, c.bad, {"SQLAllocHandle"})
    /\ UNCHANGED <<varsOS, varsFn>>
    /\ UNCHANGED <<closingInBG, hostpc, rowsHeld, execs, curExec, ctxDone>>

\* Conn.Begin / Conn.BeginTx called by database/sql
HostBegin ==
    /\ hostpc = "idle"
    /\ \E iso \in BOOLEAN, ro \in BOOLEAN :
         \E fail \in BeginStages([iso |-> iso, ro |-> ro]) :
         \E code \in CodeIf(fail \notin {"none", "hook"}) :
           LET r == BeginTx(c, [iso |-> iso, ro |-> ro], fail, code)
           IN /\ c' = r.c
              /\ lastRet' = Ret("Begin", r.err, c.bad, r.calls)
    /\ UNCHANGED <<varsOS, varsFn>>
    /\ UNCHANGED <<closingInBG, hs, nextH, hostpc, stmts, rowsHeld, execs, curExec, ctxDone>>

\* Conn.Close that does not look at closingInBG
ConnClose_NoGuard(conn, bg, h, retEnd, retAuto, retDisc, fr) ==
    LET d == closeDisconnect(conn, retEnd, retAuto, retDisc)
        r == closeRelease(d.c, h, d.h, d.err, fr)
    IN [c |-> r.c, hs |-> r.hs, err |-> r.err,
        calls |-> {"SQLDisconnect", "SQLFreeHandle"}]

\* Conn.Close (part_004): a no-op while the background task owns disposal
ConnClose(conn, bg, h, retEnd, retAuto, retDisc, fr) ==
    IF bg THEN [c |-> conn, hs |-> h, err |-> "nil", calls |-> {}]
    ELSE LET d == closeDisconnect(conn, retEnd, retAuto, retDisc)
             r == closeRelease(d.c, h, d.h, d.err, fr)
         IN [c |-> r.c, hs |-> r.hs, err |-> r.err,
             calls |-> {"SQLDisconnect", "SQLFreeHandle"}]

HostConnClose ==
    /\ hostpc = "idle"
    /\ \E retEnd \in RetIf(~closingInBG /\ c.tx.active, hs, c.h) :
       \E retAuto \in RetIf(~closingInBG /\ c.tx.active /\ retEnd = "ok", hs, c.h),
          retDisc \in RetIf(~closingInBG, hs, c.h), fr \in FreeIf(~closingInBG) :
         LET r == ConnClose(c, closingInBG, hs, retEnd, retAuto, retDisc, fr)
         IN /\ c' = r.c
            /\ hs' = r.hs
            /\ lastRet' = Ret("ConnClose", r.err, c.bad, r.calls)
    /\ hostpc' = "closed"
    /\ UNCHANGED <<varsOS, varsFn>>
    /\ UNCHANGED <<closingInBG, nextH, stmts, rowsHeld, execs, curExec, ctxDone>>

\* ------------------------------------------------------------------------
\* SpecBG: statements and rows
\* ------------------------------------------------------------------------
\* Stmt.Close that does not look at closingInBG
StmtClose_NoGuard(st, bg, h, fr) ==
    LET r == releaseHandle(h, st.h, SQL_HANDLE_STMT, fr)
    IN [st |-> [st EXCEPT !.h = NULL], hs |-> r.hs, err |-> r.err,
        calls |-> {"SQLFreeHandle"}]

\* Stmt.Close (part_009): a no-op while closing in the background, else
\* Stmt.close = Stmt.releaseHandle
StmtClose(st, bg, h, fr) ==
    IF bg THEN [st |-> st, hs |-> h, err |-> "nil", calls |-> {}]
    ELSE LET r == releaseHandle(h, st.h, SQL_HANDLE_STMT, fr)
         IN [st |-> [st EXCEPT !.h = NULL], hs |-> r.hs, err |-> r.err,
             calls |-> {"SQLFreeHandle"}]

HostStmtClose ==
    /\ hostpc = "idle"
    /\ \E s \in 1..MaxStmt, fr \in FreeIf(~closingInBG) :
         /\ stmts[s].alive /\ ~stmts[s].internal
         /\ LET r == StmtClose(stmts[s], closingInBG, hs, fr)
            IN /\ stmts' = [stmts EXCEPT ![s] = r.st]
               /\ hs' = r.hs
               /\ lastRet' = Ret("StmtClose", r.err, c.bad, r.calls)
    /\ UNCHANGED <<varsOS, varsFn>>
    /\ UNCHANGED <<c, closingInBG, nextH, hostpc, rowsHeld, execs, curExec, ctxDone>>

\* Rows.Close (driver_go18.go): a no-op while closing in the background,
\* else forget the rows and SQLCloseCursor
RowsClose(st, bg, ret) ==
    IF bg THEN [st |-> st, err |-> "nil", calls |-> {}]
    ELSE [st |-> [st EXCEPT !.rows = FALSE],
          err |-> IF IsError(ret) THEN NewError(ret) ELSE "nil",
          calls |-> {"SQLCloseCursor"}]

HostRowsClose ==
    /\ hostpc = "idle"
    /\ \E s \in rowsHeld : \E ret \in RetIf(~closingInBG, hs, stmts[s].h) :
         LET r == RowsClose(stmts[s], closingInBG, ret)
         IN /\ stmts' = [stmts EXCEPT ![s] = r.st]
            /\ rowsHeld' = rowsHeld \ {s}
            /\ lastRet' = Ret("RowsClose", r.err, c.bad, r.calls)
    /\ UNCHANGED <<varsOS, varsFn>>
    /\ UNCHANGED <<c, closingInBG, hs, nextH, hostpc, execs, curExec, ctxDone>>

\* ------------------------------------------------------------------------
\* SpecBG: Stmt.exec, sqlExecuteAsync and the background cancel
\* ------------------------------------------------------------------------
NewExec(s, kind) ==
    [used |-> TRUE, s |-> s, kind |-> kind, badAtCall |-> c.bad,
     wpc |-> "execute", err |-> "nil", cancelled |-> FALSE,
     cpc |-> "none", lh |-> NULL, res |-> "pending"]

\* Stmt.ExecContext / Stmt.QueryContext up to the select in Stmt.exec: an
\* argument-count mismatch or a BindValue error returns before the worker
\* is started; otherwise sqlExecuteAsync starts the worker and the caller
\* blocks in the select (a context that is already done is CtxCancel taken
\* before any other step).
HostExecStart ==
    /\ hostpc = "idle"
    /\ \E s \in 1..MaxStmt, kind \in {"exec", "query"}, argsOk \in BOOLEAN :
         /\ stmts[s].alive /\ ~stmts[s].internal
         /\ IF argsOk
            THEN /\ FreeExecSlots # {}
                 /\ execs' = [execs EXCEPT ![NewSlot(FreeExecSlots)] = NewExec(s, kind)]
                 /\ curExec' = NewSlot(FreeExecSlots)
                 /\ hostpc' = "wait"
                 /\ ctxDone' = FALSE
                 /\ UNCHANGED lastRet
            ELSE /\ lastRet' = Ret(IF kind = "exec" THEN "Exec" ELSE "Query", "Error", c.bad, {})
                 /\ UNCHANGED <<execs, curExec, hostpc, ctxDone>>
    /\ UNCHANGED <<varsOS, varsFn>>
    /\ UNCHANGED <<c, closingInBG, hs, nextH, stmts, rowsHeld>>

\* Conn.Ping (part_012) up to the select: ErrBadConn on a bad connection or
\* a failed prepare, else ExecContext on the prepared ";" statement
HostPingStart ==
    /\ hostpc = "idle"
    /\ c.bad \/ CanAlloc
    /\ \E stage \in (IF c.bad THEN {"none"} ELSE PrepareStages) :
       \E code \in CodeIf(stage # "none"), fr \in FreeIf(stage \in {"prepare", "params"}) :
         LET r == PrepareContext(c, hs, stage, code, fr)
             s == NewStmt
         IN /\ c' = r.c
            /\ hs' = r.hs
            /\ nextH' = IF c.bad \/ stage = "alloc" THEN nextH ELSE nextH + 1
            /\ IF r.err = "nil"
               THEN /\ FreeExecSlots # {}
                    /\ stmts' = [stmts EXCEPT ![s] = [alive |-> TRUE, internal |-> TRUE,
                                                      h |-> r.handle, rows |-> FALSE]]
                    /\ execs' = [execs EXCEPT ![NewSlot(FreeExecSlots)] = NewExec(s, "ping")]
                    /\ curExec' = NewSlot(FreeExecSlots)
                    /\ hostpc' = "wait"
                    /\ ctxDone' = FALSE
                    /\ UNCHANGED lastRet
               ELSE /\ lastRet' = Ret("Ping", "ErrBadConn", c.bad, {})
                    /\ UNCHANGED <<stmts, execs, curExec, hostpc, ctxDone>>
    /\ UNCHANGED <<varsOS, varsFn>>
    /\ UNCHANGED <<closingInBG, rowsHeld>>

\* the caller's context is cancelled or times out while it waits
CtxCancel ==
    /\ hostpc = "wait"
    /\ ~ctxDone
    /\ ctxDone' = TRUE
    /\ UNCHANGED <<varsOS, varsFn>>
    /\ UNCHANGED <<c, closingInBG, hs, nextH, hostpc, lastRet, stmts, rowsHeld, execs, curExec>>

\* what the call reports for an outcome of Stmt.exec: Ping turns every
\* error into ErrBadConn
CallOp(kind) == IF kind = "exec" THEN "Exec" ELSE IF kind = "query" THEN "Query" ELSE "Ping"
\* Ping handing on the error of ExecContext as it is
CallRes_PingKeepsError(kind, res) == res
CallRes(kind, res) == IF kind = "ping" /\ res # "nil" THEN "ErrBadConn" ELSE res

\* the case <-ctx.Done() without s.c.closingInBG.Store(true)
ExecCtxDone_NoClosingInBG(e) ==
    [cbad |-> TRUE, bg |-> closingInBG,
     exec |-> [e EXCEPT !.cpc = "start", !.res = CallRes(e.kind, "ctxErr")]]

\* Stmt.exec, case <-ctx.Done(): mark the connection bad and closing in the
\* background, start cancelExec as a goroutine, return ctx.Err()
ExecCtxDone(e) ==
    [cbad |-> TRUE, bg |-> TRUE,
     exec |-> [e EXCEPT !.cpc = "start", !.res = CallRes(e.kind, "ctxErr")]]

HostExecCancelled ==
    /\ hostpc = "wait"
    /\ ctxDone
    /\ LET r == ExecCtxDone(execs[curExec])
       IN /\ c' = [c EXCEPT !.bad = r.cbad]
          /\ closingInBG' = r.bg
          /\ execs' = [execs EXCEPT ![curExec] = r.exec]
          /\ lastRet' = Ret(CallOp(r.exec.kind), r.exec.res, r.exec.badAtCall, {})
    /\ hostpc' = "idle"
    /\ UNCHANGED <<varsOS, varsFn>>
    /\ UNCHANGED <<hs, nextH, stmts, rowsHeld, curExec, ctxDone>>

\* Stmt.exec, case err := <-sqlResult, and the rest of ExecContext /
\* QueryContext: the error of SQLExecute, else the SQLRowCount loop (Exec,
\* Ping) or bindColumns (Query), whose outcome is after
AfterExec(kind, err, after) ==
    IF err # "nil" THEN err
    ELSE IF IsError(after) THEN NewError(after)
    ELSE IF kind = "query" THEN "Rows"
    ELSE IF kind = "exec" THEN "Result"
    ELSE "nil"

HostExecRecv ==
    /\ hostpc = "wait"
    /\ execs[curExec].wpc = "send"
    /\ LET e == execs[curExec]
           s == e.s
       IN \E after \in RetIf(e.err = "nil", hs, stmts[s].h),
             fr \in FreeIf(e.kind = "ping" /\ ~closingInBG) :
            LET res == CallRes(e.kind, AfterExec(e.kind, e.err, after))
                cl == StmtClose(stmts[s], closingInBG, hs, fr)
            IN /\ execs' = [execs EXCEPT ![curExec] = [e EXCEPT !.wpc = "done", !.res = res]]
               /\ lastRet' = Ret(CallOp(e.kind), res, e.badAtCall, {})
               /\ IF e.kind = "ping"
                  THEN \* deferred stmt.Close()
                       /\ hs' = cl.hs
                       /\ stmts' = [stmts EXCEPT ![s] = cl.st]
                       /\ UNCHANGED rowsHeld
                  ELSE /\ stmts' = [stmts EXCEPT ![s].rows = IF res = "Rows" THEN TRUE ELSE @]
                       /\ rowsHeld' = IF res = "Rows" THEN rowsHeld \cup {s} ELSE rowsHeld
                       /\ UNCHANGED hs
    /\ hostpc' = "idle"
    /\ UNCHANGED <<varsOS, varsFn>>
    /\ UNCHANGED <<c, closingInBG, nextH, curExec, ctxDone>>

\* the worker of sqlExecuteAsync: SQLExecute returns
WorkerExecute(i) ==
    /\ execs[i].used /\ execs[i].wpc = "execute"
    /\ \E ret \in OdbcRet(hs, stmts[execs[i].s].h) :
         execs' = [execs EXCEPT ![i].wpc = "check",
                                ![i].err = IF IsError(ret) THEN NewError(ret) ELSE "nil"]
    /\ UNCHANGED <<varsOS, varsFn>>
    /\ UNCHANGED <<c, closingInBG, hs, nextH, hostpc, lastRet, stmts, rowsHeld, curExec, ctxDone>>

\* the worker reads the cancelled flag: it returns (wgExecuting.Done) when
\* it is set, else it goes on to send the result on the unbuffered channel
WorkerCheck(e) == [e EXCEPT !.wpc = IF e.cancelled THEN "done" ELSE "send"]

WorkerCheckCancelled(i) ==
    /\ execs[i].used /\ execs[i].wpc = "check"
    /\ execs' = [execs EXCEPT ![i] = WorkerCheck(execs[i])]
    /\ UNCHANGED <<varsOS, varsFn>>
    /\ UNCHANGED <<c, closingInBG, hs, nextH, hostpc, lastRet, stmts, rowsHeld, curExec, ctxDone>>

\* cancelExec: set the cancelled flag and call SQLCancel
CancelStart(i) ==
    /\ execs[i].cpc = "start"
    /\ execs' = [execs EXCEPT ![i].cancelled = TRUE, ![i].cpc = "wait"]
    /\ UNCHANGED <<varsOS, varsFn>>
    /\ UNCHANGED <<c, closingInBG, hs, nextH, hostpc, lastRet, stmts, rowsHeld, curExec, ctxDone>>

\* cancelExec: wgExecuting.Wait() returns once the worker has returned;
\* Stmt.releaseHandle then reads s.h
CancelWait(i) ==
    /\ execs[i].cpc = "wait"
    /\ execs[i].wpc = "done"
    /\ execs' = [execs EXCEPT ![i].cpc = "sfree", ![i].lh = stmts[execs[i].s].h]
    /\ UNCHANGED <<varsOS, varsFn>>
    /\ UNCHANGED <<c, closingInBG, hs, nextH, hostpc, lastRet, stmts, rowsHeld, curExec, ctxDone>>

\* cancelExec: s.close() clears s.h and releases the handle it read
CancelStmtFree(i) ==
    /\ execs[i].cpc = "sfree"
    /\ \E fr \in FreeRet :
         hs' = releaseHandle(hs, execs[i].lh, SQL_HANDLE_STMT, fr).hs
    /\ stmts' = [stmts EXCEPT ![execs[i].s].h = NULL]
    /\ execs' = [execs EXCEPT ![i].cpc = "cclose", ![i].lh = NULL]
    /\ UNCHANGED <<varsOS, varsFn>>
    /\ UNCHANGED <<c, closingInBG, nextH, hostpc, lastRet, rowsHeld, curExec, ctxDone>>

\* cancelExec: s.c.close() up to the return of SQLDisconnect
CancelConnDisconnect(i) ==
    /\ execs[i].cpc = "cclose"
    /\ \E retEnd \in RetIf(c.tx.active, hs, c.h) :
       \E retAuto \in RetIf(c.tx.active /\ retEnd = "ok", hs, c.h), retDisc \in OdbcRet(hs, c.h) :
         LET d == closeDisconnect(c, retEnd, retAuto, retDisc)
         IN /\ c' = d.c
            /\ execs' = [execs EXCEPT ![i].cpc = "cfree", ![i].lh = d.h]
    /\ UNCHANGED <<varsOS, varsFn>>
    /\ UNCHANGED <<closingInBG, hs, nextH, hostpc, lastRet, stmts, rowsHeld, curExec, ctxDone>>

\* cancelExec: the deferred function of s.c.close()
CancelConnFree(i) ==
    /\ execs[i].cpc = "cfree"
    /\ \E fr \in FreeRet :
         LET r == closeRelease(c, hs, execs[i].lh, "nil", fr)
         IN /\ c' = r.c
            /\ hs' = r.hs
    /\ execs' = [execs EXCEPT ![i].cpc = "done", ![i].lh = NULL]
    /\ UNCHANGED <<varsOS, varsFn>>
    /\ UNCHANGED <<closingInBG, nextH, hostpc, lastRet, stmts, rowsHeld, curExec, ctxDone>>

Worker == \E i \in 1..MaxExec : WorkerExecute(i) \/ WorkerCheckCancelled(i)
CancelExec == \E i \in 1..MaxExec :
    CancelStart(i) \/ CancelWait(i) \/ CancelStmtFree(i) \/ CancelConnDisconnect(i) \/ CancelConnFree(i)
Background == Worker \/ CancelExec

\* the state after Driver.Open returned the connection
InitBG ==
    /\ c = [h |-> ConnHandle, tx |-> NoTx, bad |-> FALSE]
    /\ closingInBG = FALSE
    /\ hs = [alloc |-> {ConnHandle}, freeLog |-> <<>>, StmtCount |-> 0, ConnCount |-> 1]
    /\ nextH = ConnHandle + 1
    /\ hostpc = "idle"
    /\ lastRet = Ret("Open", "nil", FALSE, {})
    /\ stmts = [s \in 1..MaxStmt |-> EmptyStmt]
    /\ rowsHeld = {}
    /\ execs = [e \in 1..MaxExec |-> EmptyExec]
    /\ curExec = 1
    /\ ctxDone = FALSE
    /\ odbc = [o \in 1..MaxHandle |-> EmptyODBCStmt]
    /\ txHeld = FALSE
    /\ errSeen = FALSE
    /\ FnIdle

NextBG ==
    \/ HostPrepare
    \/ HostBegin
    \/ HostConnClose
    \/ HostStmtClose
    \/ HostRowsClose
    \/ HostExecStart
    \/ HostPingStart
    \/ CtxCancel
    \/ HostExecCancelled
    \/ HostExecRecv
    \/ Worker
    \/ CancelExec

SpecBG == InitBG /\ [][NextBG]_vars

\* ------------------------------------------------------------------------
\* Properties of SpecBG
\* ------------------------------------------------------------------------
ConnOps == {"Prepare", "Begin", "Exec", "Query", "Ping"}
Cancelled(i) == execs[i].cpc # "none"
NCancel == Cardinality({i \in 1..MaxExec : Cancelled(i)})
FreeCalls(handle) == Cardinality({k \in 1..Len(hs.freeLog) : hs.freeLog[k] = handle})

\* C1: once the connection is marked bad, every Prepare, Begin, Exec, Query
\* and Ping called afterwards returns ErrBadConn, also Exec and Query on a
\* statement prepared before the connection went bad.
C1_BadConnContagion ==
    (lastRet.op \in ConnOps /\ lastRet.badAtCall) => lastRet.res = "ErrBadConn"

\* C4: after one cancellation, whatever the cancel task, the worker and the
\* upstream Close calls do, SQLFreeHandle is called at most once on each
\* statement handle and on the connection handle, and no statement handle
\* is freed after the connection handle.
C4_FreedOnceInOrder ==
    NCancel = 1 =>
        /\ \A handle \in ConnHandle..(ConnHandle + MaxStmt) : FreeCalls(handle) <= 1
        /\ \A k \in 1..Len(hs.freeLog) : hs.freeLog[k] = ConnHandle => k = Len(hs.freeLog)

\* the cancelled statement's handle was freed and then the connection's
C4_Witness ==
    /\ NCancel = 1
    /\ Len(hs.freeLog) = 2
    /\ hs.freeLog[2] = ConnHandle
    /\ hostpc = "closed"

\* C5: after a cancellation, once SQLExecute has returned the background task
\* goes on until it has released the statement and the connection: it never
\* comes to rest before cancelExec has run to its end.
C5_CancelReleases ==
    \A i \in 1..MaxExec :
        (/\ Cancelled(i)
         /\ execs[i].wpc # "execute"
         /\ ~ENABLED (WorkerCheckCancelled(i) \/ CancelStart(i) \/ CancelWait(i)
                        \/ CancelStmtFree(i) \/ CancelConnDisconnect(i) \/ CancelConnFree(i)))
        => execs[i].cpc = "done"

\* C6: when the context is done while SQLExecute is in flight, the call can
\* return at once, it then returns the context's error with SQLExecute still
\* in flight and with the bad flag and closingInBG set, and both flags stay
\* set whatever SQLCancel and the rest of the background task do.
C6_Step ==
    (/\ hostpc = "wait" /\ ctxDone /\ execs[curExec].wpc = "execute"
     /\ execs[curExec].kind # "ping"
     /\ hostpc' # "wait")
    => /\ lastRet'.res = "ctxErr"
       /\ execs'[curExec].wpc = "execute"
       /\ c'.bad /\ closingInBG'

C6_CancelReturnsAtOnce ==
    /\ [](hostpc = "wait" /\ ctxDone => ENABLED HostExecCancelled)
    /\ [][C6_Step]_vars
    /\ [](\A i \in 1..MaxExec : Cancelled(i) => c.bad /\ closingInBG)

\* the call returned the context's error while SQLExecute has not returned
C6_Witness ==
    /\ hostpc = "idle" /\ lastRet.res = "ctxErr"
    /\ execs[curExec].wpc = "execute" /\ execs[curExec].cancelled
    /\ c.bad /\ closingInBG

\* C8: while closingInBG is set, Stmt.Close, Rows.Close and Conn.Close return
\* nil, call no ODBC function and change no handle and no counter.
C8_Step ==
    (closingInBG /\ (HostStmtClose \/ HostRowsClose \/ HostConnClose))
    => /\ lastRet'.res = "nil" /\ lastRet'.calls = {}
       /\ hs' = hs /\ c' = c /\ stmts' = stmts

C10_Step ==
    /\ (HostBegin /\ lastRet'.calls # {} /\ lastRet'.res # "nil") => c'.bad
    /\ c.bad => c'.bad
    /\ (c.bad /\ (HostBegin \/ HostPrepare)) => lastRet'.res = "ErrBadConn"

C10_BeginFailureMarksBad == [][C10_Step]_vars

\* a read-only Begin on a good connection failed after it had called
\* SQLSetConnectAttr, without an 08S01 record, and the connection is bad
C10_Witness ==
    /\ lastRet.op = "Begin" /\ lastRet.res = "Error" /\ lastRet.calls # {}
    /\ ~lastRet.badAtCall /\ c.bad /\ c.tx.ro /\ ~closingInBG

\* ------------------------------------------------------------------------
\* SpecOS: connection and transactions (conn.go, tx.go)
\* ------------------------------------------------------------------------
IsErr(res) == res \notin {"nil", "Rows", "Result"}
CanAllocOS == NewStmt <= MaxHandle
FreeStmtSlots == {s \in 1..MaxStmt : ~stmts[s].used}
NewODBCStmt(handle) == [h |-> handle, usedByStmt |-> TRUE, usedByRows |-> FALSE]
\* what setAutoCommitAttr can meet, when it is called at all
AutoIf(made, h, handle) == IF made THEN OdbcRet(h, handle) \cup {"hook"} ELSE {"ok"}

\* Driver.Open (conn.go): stage names the step that fails ("init" is a
\* driver whose environment could not be set up), code its SQLRETURN class
OpenStages == {"none", "init", "alloc", "connect"}

Open(h, stage, code, fr) ==
    IF stage = "init" THEN [c |-> [h |-> NULL, tx |-> NoTx, bad |-> FALSE], hs |-> h,
                            err |-> "Error", calls |-> {}]
    ELSE IF stage = "alloc"
    THEN [c |-> [h |-> NULL, tx |-> NoTx, bad |-> FALSE], hs |-> h,
          err |-> NewError(code), calls |-> {"SQLAllocHandle"}]
    ELSE LET h1 == AllocHandle(h, SQL_HANDLE_DBC)
         IN IF stage = "connect"
            THEN [c |-> [h |-> NULL, tx |-> NoTx, bad |-> FALSE],
                  hs |-> releaseHandle(h1, nextH, SQL_HANDLE_DBC, fr).hs,
                  err |-> NewError(code),
                  calls |-> {"SQLAllocHandle", "SQLDriverConnect", "SQLFreeHandle"}]
            ELSE [c |-> [h |-> nextH, tx |-> NoTx, bad |-> FALSE], hs |-> h1,
                  err |-> "nil", calls |-> {"SQLAllocHandle", "SQLDriverConnect"}]

OSOpen ==
    /\ hostpc = "new"
    /\ \E stage \in OpenStages :
       \E code \in CodeIf(stage \in {"alloc", "connect"}), fr \in FreeIf(stage = "connect") :
         LET r == Open(hs, stage, code, fr)
         IN /\ c' = r.c
            /\ hs' = r.hs
            /\ nextH' = IF stage \in {"init", "alloc"} THEN nextH ELSE nextH + 1
            /\ hostpc' = IF r.err = "nil" THEN "idle" ELSE "closed"
            /\ lastRet' = Ret("Open", r.err, FALSE, r.calls)
            /\ errSeen' = (errSeen \/ IsErr(r.err))
    /\ UNCHANGED <<closingInBG, varsFn, stmts, rowsHeld, execs, curExec, ctxDone, odbc, txHeld>>

\* Conn.Begin without the test for a transaction that is already recorded
Begin_NoTxCheck(conn, ret) ==
    IF conn.bad THEN [c |-> conn, err |-> "ErrBadConn", calls |-> {}]
    ELSE LET a == setAutoCommitAttr([conn EXCEPT !.tx = [active |-> TRUE, ro |-> FALSE]], ret)
         IN IF a.err # "nil"
            THEN [c |-> [a.c EXCEPT !.bad = TRUE], err |-> a.err, calls |-> a.calls]
            ELSE [c |-> a.c, err |-> "nil", calls |-> a.calls]

\* Conn.Begin (tx.go): ret is the outcome of setAutoCommitAttr(OFF)
Begin(conn, ret) ==
    IF conn.bad THEN [c |-> conn, err |-> "ErrBadConn", calls |-> {}]
    ELSE IF conn.tx.active THEN [c |-> conn, err |-> "Error", calls |-> {}]
    ELSE LET a == setAutoCommitAttr([conn EXCEPT !.tx = [active |-> TRUE, ro |-> FALSE]], ret)
         IN IF a.err # "nil"
            THEN [c |-> [a.c EXCEPT !.bad = TRUE], err |-> a.err, calls |-> a.calls]
            ELSE [c |-> a.c, err |-> "nil", calls |-> a.calls]

OSBegin ==
    /\ hostpc = "idle"
    /\ \E ret \in AutoIf(~c.bad /\ ~c.tx.active, hs, c.h) :
         LET r == Begin(c, ret)
         IN /\ c' = r.c
            /\ lastRet' = Ret("Begin", r.err, c.bad, r.calls)
            /\ txHeld' = (txHeld \/ r.err = "nil")
            /\ errSeen' = (errSeen \/ IsErr(r.err))
    /\ UNCHANGED <<closingInBG, varsFn, hs, nextH, hostpc, stmts, rowsHeld, execs, curExec, ctxDone, odbc>>

\* Tx.Commit / Tx.Rollback (tx.go) on the Tx database/sql holds
TxEnd(op) ==
    /\ hostpc = "idle"
    /\ txHeld
    /\ \E retEnd \in RetIf(c.tx.active, hs, c.h) :
       \E retAuto \in AutoIf(c.tx.active /\ retEnd = "ok", hs, c.h) :
         LET r == endTx(c, retEnd, retAuto)
         IN /\ c' = r.c
            /\ lastRet' = RetF(op, r.err, c.bad, r.calls, r.failed)
            /\ errSeen' = (errSeen \/ IsErr(r.err))
    /\ txHeld' = FALSE
    /\ UNCHANGED <<closingInBG, varsFn, hs, nextH, hostpc, stmts, rowsHeld, execs, curExec, ctxDone, odbc>>

OSCommit == TxEnd("Commit")
OSRollback == TxEnd("Rollback")

\* the ODBC functions Tx.Rollback calls through endTx, in the order of
\* the calls
RollbackOrder(e) ==
    (IF "SQLEndTran" \in e.calls THEN <<"SQLEndTran">> ELSE <<>>)
    \o (IF "SQLSetConnectAttr" \in e.calls THEN <<"SQLSetConnectAttr">> ELSE <<>>)

\* Conn.Close that returns on a failed SQLDisconnect before it has
\* released the handle
Close_ReturnsOnDisconnectError(conn, h, retEnd, retAuto, retDisc, fr) ==
    LET e == endTx(conn, retEnd, retAuto)
        c1 == IF conn.tx.active THEN e.c ELSE conn
        o1 == IF conn.tx.active THEN RollbackOrder(e) ELSE <<>>
        r == releaseHandle(h, c1.h, SQL_HANDLE_DBC, fr)
    IN IF IsError(retDisc)
       THEN [c |-> newError(c1, retDisc).c, hs |-> h, err |-> NewError(retDisc),
             order |-> o1 \o <<"SQLDisconnect">>]
       ELSE [c |-> [c1 EXCEPT !.h = NULL], hs |-> r.hs, err |-> r.err,
             order |-> o1 \o <<"SQLDisconnect", "SQLFreeHandle">>]

\* Conn.Close (conn.go): roll an active transaction back and ignore the
\* outcome, SQLDisconnect, and in the deferred function clear c.h and
\* release the handle read before
Close(conn, h, retEnd, retAuto, retDisc, fr) ==
    LET e == endTx(conn, retEnd, retAuto)
        c1 == IF conn.tx.active THEN e.c ELSE conn
        o1 == IF conn.tx.active THEN RollbackOrder(e) ELSE <<>>
        c2 == IF IsError(retDisc) THEN newError(c1, retDisc).c ELSE c1
        err == IF IsError(retDisc) THEN NewError(retDisc) ELSE "nil"
        r == releaseHandle(h, c1.h, SQL_HANDLE_DBC, fr)
    IN [c |-> [c2 EXCEPT !.h = NULL], hs |-> r.hs,
        err |-> IF err = "nil" THEN r.err ELSE err,
        order |-> o1 \o <<"SQLDisconnect", "SQLFreeHandle">>]

OSConnClose ==
    /\ hostpc = "idle"
    /\ \E retEnd \in RetIf(c.tx.active, hs, c.h) :
       \E retAuto \in AutoIf(c.tx.active /\ retEnd = "ok", hs, c.h),
          retDisc \in OdbcRet(hs, c.h), fr \in FreeRet :
         LET r == Close(c, hs, retEnd, retAuto, retDisc, fr)
         IN /\ c' = r.c
            /\ hs' = r.hs
            /\ lastRet' = Ret("ConnClose", r.err, c.bad, {"SQLDisconnect", "SQLFreeHandle"})
                           @@ [order |-> r.order]
            /\ errSeen' = (errSeen \/ IsErr(r.err))
    /\ hostpc' = "closed"
    /\ UNCHANGED <<closingInBG, varsFn, nextH, stmts, rowsHeld, execs, curExec, ctxDone, odbc, txHeld>>

\* ------------------------------------------------------------------------
\* SpecOS: ODBCStmt, Stmt and Rows (part_016, part_010, rows.go)
\* ------------------------------------------------------------------------
\* PrepareODBCStmt that returns the error of ExtractParameters without the
\* deferred releaseHandle
PrepareODBCStmt_LeaksOnParams(conn, h, stage, code, fr) ==
    IF stage = "alloc"
    THEN [c |-> newError(conn, code).c, hs |-> h, err |-> NewError(code), handle |-> NULL]
    ELSE LET h1 == AllocHandle(h, SQL_HANDLE_STMT)
         IN IF stage = "prepare"
            THEN [c |-> newError(conn, code).c,
                  hs |-> releaseHandle(h1, nextH, SQL_HANDLE_STMT, fr).hs,
                  err |-> NewError(code), handle |-> NULL]
            ELSE IF stage = "params"
            THEN [c |-> conn, hs |-> h1, err |-> NewError(code), handle |-> NULL]
            ELSE [c |-> conn, hs |-> h1, err |-> "nil", handle |-> nextH]

\* Conn.PrepareODBCStmt (part_016): stage names the step that fails
PrepareODBCStmt(conn, h, stage, code, fr) ==
    IF stage = "alloc"
    THEN [c |-> newError(conn, code).c, hs |-> h, err |-> NewError(code), handle |-> NULL]
    ELSE LET h1 == AllocHandle(h, SQL_HANDLE_STMT)
         IN IF stage = "prepare"
            THEN [c |-> newError(conn, code).c,
                  hs |-> releaseHandle(h1, nextH, SQL_HANDLE_STMT, fr).hs,
                  err |-> NewError(code), handle |-> NULL]
            ELSE IF stage = "params"
            THEN [c |-> conn, hs |-> releaseHandle(h1, nextH, SQL_HANDLE_STMT, fr).hs,
                  err |-> NewError(code), handle |-> NULL]
            ELSE [c |-> conn, hs |-> h1, err |-> "nil", handle |-> nextH]

\* ODBCStmt.releaseHandle: clear s.h and release the handle it held
ODBCStmtReleaseHandle(o, h, fr) ==
    LET r == releaseHandle(h, o.h, SQL_HANDLE_STMT, fr)
    IN [os |-> [o EXCEPT !.h = NULL], hs |-> r.hs, err |-> r.err]

\* closeByStmt that resets usedByStmt and never releases the handle
closeByStmt_NeverReleases(o, h, fr) ==
    [os |-> [o EXCEPT !.usedByStmt = FALSE], hs |-> h, err |-> "nil"]

\* closeByStmt that releases the handle without looking at usedByRows
closeByStmt_IgnoresRows(o, h, fr) ==
    IF o.usedByStmt
    THEN LET r == ODBCStmtReleaseHandle(o, h, fr)
         IN [os |-> [r.os EXCEPT !.usedByStmt = FALSE], hs |-> r.hs, err |-> r.err]
    ELSE [os |-> o, hs |-> h, err |-> "nil"]

\* ODBCStmt.closeByStmt: the statement lets go; the handle is released
\* unless the rows still use it
closeByStmt(o, h, fr) ==
    IF o.usedByStmt
    THEN IF ~o.usedByRows
         THEN LET r == ODBCStmtReleaseHandle(o, h, fr)
              IN [os |-> [r.os EXCEPT !.usedByStmt = FALSE], hs |-> r.hs, err |-> r.err]
         ELSE [os |-> [o EXCEPT !.usedByStmt = FALSE], hs |-> h, err |-> "nil"]
    ELSE [os |-> o, hs |-> h, err |-> "nil"]

\* closeByRows that releases the handle whether or not the statement
\* still uses it
closeByRows_AlwaysReleases(o, h, ret, fr) ==
    IF o.usedByRows
    THEN LET r == ODBCStmtReleaseHandle(o, h, fr)
         IN [os |-> [r.os EXCEPT !.usedByRows = FALSE], hs |-> r.hs, err |-> r.err]
    ELSE [os |-> o, hs |-> h, err |-> "nil"]

\* closeByRows that closes the cursor and forgets to reset usedByRows
closeByRows_KeepsUsedByRows(o, h, ret, fr) ==
    IF o.usedByRows
    THEN IF o.usedByStmt
         THEN [os |-> o, hs |-> h,
               err |-> IF IsError(ret) THEN NewError(ret) ELSE "nil"]
         ELSE LET r == ODBCStmtReleaseHandle(o, h, fr)
              IN [os |-> [r.os EXCEPT !.usedByRows = FALSE], hs |-> r.hs, err |-> r.err]
    ELSE [os |-> o, hs |-> h, err |-> "nil"]

\* ODBCStmt.closeByRows: the rows let go; SQLCloseCursor (ret) while the
\* statement still uses the handle, else the handle is released
closeByRows(o, h, ret, fr) ==
    IF o.usedByRows
    THEN IF o.usedByStmt
         THEN [os |-> [o EXCEPT !.usedByRows = FALSE], hs |-> h,
               err |-> IF IsError(ret) THEN NewError(ret) ELSE "nil"]
         ELSE LET r == ODBCStmtReleaseHandle(o, h, fr)
              IN [os |-> [r.os EXCEPT !.usedByRows = FALSE], hs |-> r.hs, err |-> r.err]
    ELSE [os |-> o, hs |-> h, err |-> "nil"]

\* ODBCStmt.Exec: argsOk is false for an argument-count mismatch or a
\* BindValue error, ret is SQLExecute's return
ODBCStmtExec(argsOk, ret) ==
    IF ~argsOk THEN "Error" ELSE IF IsError(ret) THEN NewError(ret) ELSE "nil"

\* the rest of Stmt.Exec (the SQLRowCount loop) or of Stmt.Query
\* (BindColumns) after ODBCStmt.Exec returned err; after is its outcome
StmtResult(kind, err, after) ==
    IF err # "nil" THEN err
    ELSE IF IsError(after) THEN NewError(after)
    ELSE IF kind = "query" THEN "Rows" ELSE "Result"

\* Conn.Prepare (part_010)
Prepare(conn, h, stage, code, fr) ==
    IF conn.bad THEN [c |-> conn, hs |-> h, err |-> "ErrBadConn", handle |-> NULL]
    ELSE PrepareODBCStmt(conn, h, stage, code, fr)

OSPrepare ==
    /\ hostpc = "idle"
    /\ c.bad \/ (CanAllocOS /\ FreeStmtSlots # {})
    /\ \E stage \in (IF c.bad THEN {"none"} ELSE PrepareStages) :
       \E code \in CodeIf(stage # "none"), fr \in FreeIf(stage \in {"prepare", "params"}) :
         LET r == Prepare(c, hs, stage, code, fr)
         IN /\ c' = r.c
            /\ hs' = r.hs
            /\ nextH' = IF c.bad \/ stage = "alloc" THEN nextH ELSE nextH + 1
            /\ stmts' = IF r.err = "nil"
                        THEN [stmts EXCEPT ![NewSlot(FreeStmtSlots)] = [used |-> TRUE, os |-> NewStmt]]
                        ELSE stmts
            /\ odbc' = IF r.err = "nil"
                       THEN [odbc EXCEPT ![NewStmt] = NewODBCStmt(r.handle)]
                       ELSE odbc
            /\ lastRet' = Ret("Prepare", r.err, c.bad, {"SQLAllocHandle"})
            /\ errSeen' = (errSeen \/ IsErr(r.err))
    /\ UNCHANGED <<closingInBG, varsFn, hostpc, rowsHeld, execs, curExec, ctxDone, txHeld>>

\* Stmt.Close (part_010)
OSStmtClose ==
    /\ hostpc = "idle"
    /\ \E s \in 1..MaxStmt :
         /\ stmts[s].used
         /\ IF stmts[s].os = 0
            THEN /\ lastRet' = Ret("StmtClose", "Error", c.bad, {})
                 /\ errSeen' = TRUE
                 /\ UNCHANGED <<stmts, odbc, hs>>
            ELSE LET o == stmts[s].os
                 IN \E fr \in FreeIf(~odbc[o].usedByRows) :
                      LET r == closeByStmt(odbc[o], hs, fr)
                      IN /\ odbc' = [odbc EXCEPT ![o] = r.os]
                         /\ hs' = r.hs
                         /\ stmts' = [stmts EXCEPT ![s].os = 0]
                         /\ lastRet' = Ret("StmtClose", r.err, c.bad,
                                           IF hs' = hs THEN {} ELSE {"SQLFreeHandle"})
                         /\ errSeen' = (errSeen \/ IsErr(r.err))
    /\ UNCHANGED <<c, closingInBG, varsFn, nextH, hostpc, rowsHeld, execs, curExec, ctxDone, txHeld>>

\* Stmt.Exec / Stmt.Query (part_010): on a statement whose rows are open,
\* let go of the ODBCStmt and prepare a new one; then ODBCStmt.Exec and
\* the row count loop or BindColumns.  in holds the answers of the ODBC
\* calls made: stage, code, fr for the prepare, argsOk, ret, after.
StmtCall(kind, st, od, conn, h, in) ==
    IF st.os = 0
    THEN [st |-> st, odbc |-> od, c |-> conn, hs |-> h, res |-> "Error", o |-> 0]
    ELSE LET reprep == od[st.os].usedByRows
             od1 == IF reprep THEN [od EXCEPT ![st.os] = closeByStmt(od[st.os], h, "ok").os]
                    ELSE od
             p == PrepareODBCStmt(conn, h, in.stage, in.code, in.fr)
         IN IF reprep /\ p.err # "nil"
            THEN [st |-> [st EXCEPT !.os = 0], odbc |-> od1, c |-> p.c, hs |-> p.hs,
                  res |-> p.err, o |-> 0]
            ELSE LET o == IF reprep THEN NewStmt ELSE st.os
                     od2 == IF reprep THEN [od1 EXCEPT ![o] = NewODBCStmt(p.handle)] ELSE od1
                     res == StmtResult(kind, ODBCStmtExec(in.argsOk, in.ret), in.after)
                 IN [st |-> [st EXCEPT !.os = o],
                     odbc |-> IF res = "Rows" THEN [od2 EXCEPT ![o].usedByRows = TRUE] ELSE od2,
                     c |-> conn, hs |-> IF reprep THEN p.hs ELSE h, res |-> res, o |-> o]

StmtCallStep(kind) ==
    /\ hostpc = "idle"
    /\ \E s \in 1..MaxStmt :
         /\ stmts[s].used
         /\ LET open == stmts[s].os # 0
                reprep == open /\ odbc[stmts[s].os].usedByRows
            IN /\ reprep => CanAllocOS
               /\ \E stage \in (IF reprep THEN PrepareStages ELSE {"none"}) :
                  \E code \in CodeIf(stage # "none"),
                     fr \in FreeIf(stage \in {"prepare", "params"}),
                     argsOk \in (IF open /\ stage = "none" THEN BOOLEAN ELSE {TRUE}) :
                  \E ret \in (IF open /\ stage = "none" /\ argsOk THEN RetCodes ELSE {"ok"}) :
                  \E after \in (IF open /\ stage = "none" /\ argsOk /\ ret = "ok"
                                THEN RetCodes ELSE {"ok"}) :
                    LET r == StmtCall(kind, stmts[s], odbc, c, hs,
                                      [stage |-> stage, code |-> code, fr |-> fr,
                                       argsOk |-> argsOk, ret |-> ret, after |-> after])
                    IN /\ stmts' = [stmts EXCEPT ![s] = r.st]
                       /\ odbc' = r.odbc
                       /\ c' = r.c
                       /\ hs' = r.hs
                       /\ nextH' = IF reprep /\ stage # "alloc" THEN nextH + 1 ELSE nextH
                       /\ rowsHeld' = IF r.res = "Rows" THEN rowsHeld \cup {r.o} ELSE rowsHeld
                       /\ lastRet' = Ret(CallOp(kind), r.res, c.bad, {})
                       /\ errSeen' = (errSeen \/ IsErr(r.res))
    /\ UNCHANGED <<closingInBG, varsFn, hostpc, execs, curExec, ctxDone, txHeld>>

OSStmtExec == StmtCallStep("exec")
OSStmtQuery == StmtCallStep("query")

\* Rows.Close (rows.go)
OSRowsClose ==
    /\ hostpc = "idle"
    /\ \E o \in rowsHeld :
       \E ret \in RetIf(odbc[o].usedByStmt, hs, odbc[o].h), fr \in FreeIf(~odbc[o].usedByStmt) :
         LET r == closeByRows(odbc[o], hs, ret, fr)
         IN /\ odbc' = [odbc EXCEPT ![o] = r.os]
            /\ hs' = r.hs
            /\ rowsHeld' = rowsHeld \ {o}
            /\ lastRet' = Ret("RowsClose", r.err, c.bad,
                              IF odbc[o].usedByStmt THEN {"SQLCloseCursor"} ELSE {"SQLFreeHandle"})
            /\ errSeen' = (errSeen \/ IsErr(r.err))
    /\ UNCHANGED <<c, closingInBG, varsFn, nextH, hostpc, stmts, execs, curExec, ctxDone, txHeld>>

\* ------------------------------------------------------------------------
\* SpecOS: Conn.QueryContext (conn.go)
\* ------------------------------------------------------------------------
DoneQueries == {e \in 1..MaxExec : execs[e].wpc = "done"}
IdleQuery == [used |-> FALSE, os |-> 0, wpc |-> "done", err |-> "nil", cancelled |-> FALSE]

\* ODBCStmt.Cancel: SQLCancel is issued on the statement's handle
Cancel(e) == [e EXCEPT !.cancelled = TRUE]

\* Conn.QueryContext up to the call of waitQuery: a named argument, a failed
\* prepare or a context that is already done end the call (the deferred
\* closeByStmt releases what was prepared); otherwise the query goroutine
\* is started and the caller blocks in waitQuery
OSQueryContext ==
    /\ hostpc = "idle"
    /\ CanAllocOS
    /\ DoneQueries # {}
    /\ \E named \in BOOLEAN :
       \E stage \in (IF named THEN {"none"} ELSE PrepareStages) :
       \E code \in CodeIf(stage # "none"), fr \in FreeIf(stage \in {"prepare", "params"}),
          ctxErr \in (IF named \/ stage # "none" THEN {FALSE} ELSE BOOLEAN) :
       \E fr2 \in FreeIf(ctxErr) :
         LET p == PrepareODBCStmt(c, hs, stage, code, fr)
             o == NewStmt
             e == NewSlot(DoneQueries)
             cl == closeByStmt(NewODBCStmt(p.handle), p.hs, fr2)
         IN IF named
            THEN /\ lastRet' = Ret("QueryContext", "Error", c.bad, {})
                 /\ errSeen' = TRUE
                 /\ UNCHANGED <<c, hs, nextH, hostpc, odbc, execs, curExec, ctxDone>>
            ELSE IF p.err # "nil"
            THEN /\ c' = p.c
                 /\ hs' = p.hs
                 /\ nextH' = IF stage = "alloc" THEN nextH ELSE nextH + 1
                 /\ lastRet' = Ret("QueryContext", p.err, c.bad, {"SQLAllocHandle"})
                 /\ errSeen' = TRUE
                 /\ UNCHANGED <<hostpc, odbc, execs, curExec, ctxDone>>
            ELSE IF ctxErr
            THEN /\ hs' = cl.hs
                 /\ odbc' = [odbc EXCEPT ![o] = cl.os]
                 /\ nextH' = nextH + 1
                 /\ lastRet' = Ret("QueryContext", "ctxErr", c.bad, {"SQLAllocHandle", "SQLFreeHandle"})
                 /\ errSeen' = TRUE
                 /\ UNCHANGED <<c, hostpc, execs, curExec, ctxDone>>
            ELSE /\ hs' = p.hs
                 /\ odbc' = [odbc EXCEPT ![o] = NewODBCStmt(p.handle)]
                 /\ nextH' = nextH + 1
                 /\ execs' = [execs EXCEPT ![e] = [used |-> TRUE, os |-> o, wpc |-> "run",
                                                   err |-> "nil", cancelled |-> FALSE]]
                 /\ curExec' = e
                 /\ hostpc' = "wait"
                 /\ ctxDone' = FALSE
                 /\ UNCHANGED <<c, lastRet, errSeen>>
    /\ UNCHANGED <<closingInBG, varsFn, stmts, rowsHeld, txHeld>>

\* the query goroutine: wrapQuery (ODBCStmt.Exec and BindColumns), then
\* either the error is ready for errorChan, or usedByRows is set and the
\* Rows are ready for rowsChan
OSQueryGoroutine ==
    \E e \in 1..MaxExec :
      /\ execs[e].wpc = "run"
      /\ \E argsOk \in BOOLEAN :
         \E ret \in (IF argsOk THEN RetCodes ELSE {"ok"}) :
         \E after \in (IF argsOk /\ ret = "ok" THEN RetCodes ELSE {"ok"}) :
           LET res == StmtResult("query", ODBCStmtExec(argsOk, ret), after)
           IN IF res = "Rows"
              THEN /\ odbc' = [odbc EXCEPT ![execs[e].os].usedByRows = TRUE]
                   /\ execs' = [execs EXCEPT ![e].wpc = "sendrows"]
              ELSE /\ execs' = [execs EXCEPT ![e].wpc = "senderr", ![e].err = res]
                   /\ UNCHANGED odbc
      /\ UNCHANGED <<c, closingInBG, varsFn, hs, nextH, hostpc, lastRet, stmts, rowsHeld, curExec,
                     ctxDone, txHeld, errSeen>>

\* the return of Conn.QueryContext with result res: the message is taken
\* from the goroutine and the deferred os.closeByStmt() runs
QueryReturn(res) ==
    LET e == execs[curExec]
    IN \E fr \in FreeIf(~odbc[e.os].usedByRows) :
         LET cl == closeByStmt(odbc[e.os], hs, fr)
         IN /\ odbc' = [odbc EXCEPT ![e.os] = cl.os]
            /\ hs' = cl.hs
            /\ execs' = [execs EXCEPT ![curExec].wpc = "done"]
            /\ rowsHeld' = IF res = "Rows" THEN rowsHeld \cup {e.os} ELSE rowsHeld
            /\ lastRet' = Ret("QueryContext", res, c.bad, {})
            /\ errSeen' = (errSeen \/ IsErr(res))
            /\ hostpc' = "idle"
            /\ UNCHANGED <<c, closingInBG, varsFn, nextH, stmts, curExec, ctxDone, txHeld>>

\* waitQuery, the cases errorChan and rowsChan of the outer select
OSWaitQueryRecv ==
    /\ hostpc = "wait"
    /\ execs[curExec].wpc \in {"senderr", "sendrows"}
    /\ QueryReturn(IF execs[curExec].wpc = "sendrows" THEN "Rows" ELSE execs[curExec].err)

\* waitQuery, the case ctx.Done() of the outer select: os.Cancel()
OSWaitQueryCtxDone ==
    /\ hostpc = "wait"
    /\ ctxDone
    /\ execs' = [execs EXCEPT ![curExec] = Cancel(execs[curExec])]
    /\ hostpc' = "cancelled"
    /\ UNCHANGED <<c, closingInBG, varsFn, hs, nextH, lastRet, stmts, rowsHeld, curExec, ctxDone,
                   odbc, txHeld, errSeen>>

\* waitQuery that returns ctx.Err() after os.Cancel() without the inner
\* select
OSWaitQueryCancelled_NoReceive ==
    /\ hostpc = "cancelled"
    /\ hostpc' = "idle"
    /\ lastRet' = Ret("QueryContext", "ctxErr", c.bad, {})
    /\ errSeen' = TRUE
    /\ UNCHANGED <<c, closingInBG, varsFn, hs, nextH, stmts, rowsHeld, execs, curExec,
                   ctxDone, odbc, txHeld>>

\* waitQuery, the inner select after os.Cancel(): ctx.Err() for a message
\* on errorChan, the rows for a message on rowsChan
OSWaitQueryCancelled ==
    /\ hostpc = "cancelled"
    /\ execs[curExec].wpc \in {"senderr", "sendrows"}
    /\ QueryReturn(IF execs[curExec].wpc = "sendrows" THEN "Rows" ELSE "ctxErr")

\* the state before Driver.Open is called
InitOS ==
    /\ c = [h |-> NULL, tx |-> NoTx, bad |-> FALSE]
    /\ closingInBG = FALSE
    /\ hs = [alloc |-> {}, freeLog |-> <<>>, StmtCount |-> 0, ConnCount |-> 0]
    /\ nextH = ConnHandle
    /\ hostpc = "new"
    /\ lastRet = Ret("none", "nil", FALSE, {})
    /\ stmts = [s \in 1..MaxStmt |-> [used |-> FALSE, os |-> 0]]
    /\ rowsHeld = {}
    /\ execs = [e \in 1..MaxExec |-> IdleQuery]
    /\ curExec = 1
    /\ ctxDone = FALSE
    /\ odbc = [o \in 1..MaxHandle |-> EmptyODBCStmt]
    /\ txHeld = FALSE
    /\ errSeen = FALSE
    /\ FnIdle

NextOS ==
    \/ OSOpen
    \/ OSPrepare
    \/ OSBegin
    \/ OSCommit
    \/ OSRollback
    \/ OSConnClose
    \/ OSStmtClose
    \/ OSStmtExec
    \/ OSStmtQuery
    \/ OSRowsClose
    \/ OSQueryContext
    \/ CtxCancel
    \/ OSQueryGoroutine
    \/ OSWaitQueryRecv
    \/ OSWaitQueryCtxDone
    \/ OSWaitQueryCancelled

SpecOS == InitOS /\ [][NextOS]_vars

\* ------------------------------------------------------------------------
\* Properties of SpecOS
\* ------------------------------------------------------------------------
AllClosed ==
    /\ hostpc = "closed"
    /\ rowsHeld = {}
    /\ \A s \in 1..MaxStmt : stmts[s].os = 0

\* C3: when the connection was opened, statements were prepared and run,
\* every Rows and every statement was closed, then the connection was
\* closed, and no call returned an error, StmtCount and ConnCount are back
\* at the values they had before Open.
C3_HandleCountBalance ==
    (AllClosed /\ ~errSeen) => (hs.StmtCount = 0 /\ hs.ConnCount = 0)

\* a statement was prepared, queried twice with the first Rows still open
\* (so that a second handle was prepared), and everything was closed
C3_Witness ==
    /\ AllClosed /\ ~errSeen
    /\ Len(hs.freeLog) = 3
    /\ hs.freeLog[3] = ConnHandle
    /\ hs.StmtCount = 0 /\ hs.ConnCount = 0

\* C7: a Conn.QueryContext on whose statement SQLCancel was issued returns
\* an error and never a Rows: the caller sees the cancellation error, or,
\* with no cancel issued, the outcome of the execute.
C7_NoRowsAfterCancel ==
    (hostpc = "idle" /\ lastRet.op = "QueryContext" /\ execs[curExec].cancelled)
    => IsErr(lastRet.res)

\* C9: a Commit or Rollback whose SQLEndTran fails returns an error and marks
\* the connection bad, the mark stays, and every Begin and Prepare on a bad
\* connection returns ErrBadConn.
C9_Step ==
    /\ ((OSCommit \/ OSRollback) /\ lastRet'.failed = "SQLEndTran")
       => (IsErr(lastRet'.res) /\ c'.bad)
    /\ c.bad => c'.bad
    /\ (c.bad /\ (OSBegin \/ OSPrepare)) => lastRet'.res = "ErrBadConn"

C9_EndTranFailureMarksBad == [][C9_Step]_vars

\* a Commit on a good connection failed in SQLEndTran, without an 08S01
\* record, and the connection is bad
C9_Witness ==
    /\ lastRet.op = "Commit" /\ lastRet.failed = "SQLEndTran" /\ lastRet.res = "Error"
    /\ ~lastRet.badAtCall /\ c.bad /\ c.tx.active /\ ~txHeld

\* ------------------------------------------------------------------------
\* SpecST: the Stmt of stmt.go, which holds the handle, the ownership flags
\* and the mutex itself
\* ------------------------------------------------------------------------
EmptyStmtST == [used |-> FALSE, h |-> NULL, usedByStmt |-> FALSE, usedByRows |-> FALSE,
                closed |-> FALSE, mu |-> FALSE]
NewStmtST(handle) == [used |-> TRUE, h |-> handle, usedByStmt |-> TRUE, usedByRows |-> FALSE,
                      closed |-> FALSE, mu |-> FALSE]
NoCall == [s |-> 1, kind |-> "none"]

\* Conn.Prepare (part_004): stage names the step that fails
ConnPrepare(conn, h, stage, code, fr) ==
    IF conn.bad THEN [c |-> conn, hs |-> h, err |-> "ErrBadConn", handle |-> NULL]
    ELSE IF stage = "alloc"
    THEN [c |-> newError(conn, code).c, hs |-> h, err |-> NewError(code), handle |-> NULL]
    ELSE LET h1 == AllocHandle(h, SQL_HANDLE_STMT)
         IN IF stage = "prepare"
            THEN [c |-> newError(conn, code).c,
                  hs |-> releaseHandle(h1, nextH, SQL_HANDLE_STMT, fr).hs,
                  err |-> NewError(code), handle |-> NULL]
            ELSE IF stage = "params"
            THEN [c |-> conn, hs |-> releaseHandle(h1, nextH, SQL_HANDLE_STMT, fr).hs,
                  err |-> NewError(code), handle |-> NULL]
            ELSE [c |-> conn, hs |-> h1, err |-> "nil", handle |-> nextH]

\* Stmt.releaseHandle (stmt.go)
StmtReleaseHandle(st, h, fr) ==
    LET r == releaseHandle(h, st.h, SQL_HANDLE_STMT, fr)
    IN [st |-> [st EXCEPT !.h = NULL], hs |-> r.hs, err |-> r.err]

\* Stmt.closeByStmt (stmt.go) from the moment it holds s.mu to its return
StmtCloseByStmt(st, h, fr) ==
    IF st.usedByStmt
    THEN IF ~st.usedByRows
         THEN LET r == StmtReleaseHandle(st, h, fr)
              IN [st |-> [r.st EXCEPT !.usedByStmt = FALSE], hs |-> r.hs, err |-> r.err]
         ELSE [st |-> [st EXCEPT !.usedByStmt = FALSE], hs |-> h, err |-> "nil"]
    ELSE [st |-> st, hs |-> h, err |-> "nil"]

\* closeByRows that releases the handle whatever usedByStmt says
StmtCloseByRows_AlwaysFrees(st, h, ret, fr) ==
    IF st.usedByRows
    THEN LET r == StmtReleaseHandle(st, h, fr)
         IN [st |-> [r.st EXCEPT !.usedByRows = FALSE], hs |-> r.hs, err |-> r.err]
    ELSE [st |-> st, hs |-> h, err |-> "nil"]

\* Stmt.closeByRows (stmt.go) from the moment it holds s.mu to its return
StmtCloseByRows(st, h, ret, fr) ==
    IF st.usedByRows
    THEN IF st.usedByStmt
         THEN [st |-> [st EXCEPT !.usedByRows = FALSE], hs |-> h,
               err |-> IF IsError(ret) THEN NewError(ret) ELSE "nil"]
         ELSE LET r == StmtReleaseHandle(st, h, fr)
              IN [st |-> [r.st EXCEPT !.usedByRows = FALSE], hs |-> r.hs, err |-> r.err]
    ELSE [st |-> st, hs |-> h, err |-> "nil"]

\* Stmt.exec (stmt.go) and what Exec (the row count loop) or Query
\* (bindColumns) make of it
StmtExecResult(kind, argsOk, ret, after) ==
    IF ~argsOk THEN "Error"
    ELSE IF IsError(ret) THEN NewError(ret)
    ELSE IF IsError(after) THEN NewError(after)
    ELSE IF kind = "query" THEN "Rows" ELSE "Result"

STPrepare ==
    /\ hostpc = "idle"
    /\ c.bad \/ CanAllocOS
    /\ \E stage \in (IF c.bad THEN {"none"} ELSE PrepareStages) :
       \E code \in CodeIf(stage # "none"), fr \in FreeIf(stage \in {"prepare", "params"}) :
         LET r == ConnPrepare(c, hs, stage, code, fr)
         IN /\ c' = r.c
            /\ hs' = r.hs
            /\ nextH' = IF c.bad \/ stage = "alloc" THEN nextH ELSE nextH + 1
            /\ stmts' = IF r.err = "nil"
                        THEN [stmts EXCEPT ![NewStmt] = NewStmtST(r.handle)]
                        ELSE stmts
            /\ lastRet' = Ret("Prepare", r.err, c.bad, {"SQLAllocHandle"})
    /\ UNCHANGED <<closingInBG, varsFn, hostpc, rowsHeld, execs, curExec, ctxDone, odbc, txHeld, errSeen>>

\* Stmt.Close (stmt.go) up to the call of closeByStmt
STStmtClose ==
    /\ hostpc = "idle"
    /\ \E s \in 1..MaxHandle :
         /\ stmts[s].used
         /\ IF stmts[s].closed
            THEN /\ lastRet' = Ret("StmtClose", "Error", c.bad, {})
                 /\ UNCHANGED <<hostpc, execs>>
            ELSE /\ hostpc' = "wait"
                 /\ execs' = [execs EXCEPT ![curExec] = [s |-> s, kind |-> "close"]]
                 /\ UNCHANGED lastRet
    /\ UNCHANGED <<c, closingInBG, varsFn, hs, nextH, stmts, rowsHeld, curExec, ctxDone, odbc, txHeld, errSeen>>

\* Stmt.Exec / Stmt.Query (stmt.go): take s.mu; on a statement whose rows
\* are open go on to closeByStmt with s.mu held, else run exec and the row
\* count loop or bindColumns and release s.mu
STStmtCall(kind) ==
    /\ hostpc = "idle"
    /\ \E s \in 1..MaxHandle :
         /\ stmts[s].used
         /\ IF stmts[s].closed
            THEN /\ lastRet' = Ret(CallOp(kind), "Error", c.bad, {})
                 /\ UNCHANGED <<hostpc, execs, stmts, rowsHeld>>
            ELSE /\ ~stmts[s].mu
                 /\ IF stmts[s].usedByRows
                    THEN /\ stmts' = [stmts EXCEPT ![s].mu = TRUE]
                         /\ hostpc' = "wait"
                         /\ execs' = [execs EXCEPT ![curExec] = [s |-> s, kind |-> kind]]
                         /\ UNCHANGED <<lastRet, rowsHeld>>
                    ELSE \E argsOk \in BOOLEAN :
                         \E ret \in (IF argsOk THEN OdbcRet(hs, stmts[s].h) ELSE {"ok"}) :
                         \E after \in (IF argsOk /\ ret = "ok" THEN RetCodes ELSE {"ok"}) :
                           LET res == StmtExecResult(kind, argsOk, ret, after)
                           IN /\ stmts' = [stmts EXCEPT ![s].usedByRows = (res = "Rows")]
                              /\ rowsHeld' = IF res = "Rows" THEN rowsHeld \cup {s} ELSE rowsHeld
                              /\ lastRet' = Ret(CallOp(kind), res, c.bad, {"SQLExecute"})
                              /\ UNCHANGED <<hostpc, execs>>
    /\ UNCHANGED <<c, closingInBG, varsFn, hs, nextH, curExec, ctxDone, odbc, txHeld, errSeen>>

STStmtExec == STStmtCall("exec")
STStmtQuery == STStmtCall("query")

\* closeByStmt takes s.mu, runs and releases it, and its caller goes on to
\* its return: Stmt.Close stores closed; Exec and Query store closed,
\* prepare again, copy the new Stmt over *s (its unlocked mutex included)
\* and execute, and their deferred s.mu.Unlock() then meets a mutex that
\* is not locked
STCloseByStmt ==
    /\ hostpc = "wait"
    /\ LET e == execs[curExec]
           s == e.s
       IN /\ ~stmts[s].mu
          /\ \E fr \in FreeIf(stmts[s].usedByStmt /\ ~stmts[s].usedByRows) :
               LET cl == StmtCloseByStmt(stmts[s], hs, fr)
               IN IF e.kind = "close"
                  THEN /\ stmts' = [stmts EXCEPT ![s] = [cl.st EXCEPT !.closed = TRUE]]
                       /\ hs' = cl.hs
                       /\ lastRet' = Ret("StmtClose", cl.err, c.bad,
                                         IF cl.hs = hs THEN {} ELSE {"SQLFreeHandle"})
                       /\ hostpc' = "idle"
                       /\ UNCHANGED <<c, nextH>>
                  ELSE /\ c.bad \/ CanAllocOS
                       /\ \E stage \in (IF c.bad THEN {"none"} ELSE PrepareStages) :
                          \E code \in CodeIf(stage # "none"),
                             fr2 \in FreeIf(stage \in {"prepare", "params"}) :
                            LET p == ConnPrepare(c, cl.hs, stage, code, fr2)
                            IN /\ c' = p.c
                               /\ hs' = p.hs
                               /\ nextH' = IF c.bad \/ stage = "alloc" THEN nextH ELSE nextH + 1
                               /\ stmts' = [stmts EXCEPT ![s] =
                                              IF p.err = "nil" THEN NewStmtST(p.handle)
                                              ELSE [cl.st EXCEPT !.closed = TRUE, !.mu = FALSE]]
                               /\ lastRet' = Ret(CallOp(e.kind),
                                                 IF p.err = "nil" THEN "fatal" ELSE p.err,
                                                 c.bad, {"SQLAllocHandle"})
                               /\ hostpc' = IF p.err = "nil" THEN "closed" ELSE "idle"
    /\ execs' = [execs EXCEPT ![curExec] = NoCall]
    /\ UNCHANGED <<closingInBG, varsFn, rowsHeld, curExec, ctxDone, odbc, txHeld, errSeen>>

\* Rows.Close (part_005): closeByRows takes s.mu
STRowsClose ==
    /\ hostpc = "idle"
    /\ \E s \in rowsHeld :
         /\ ~stmts[s].mu
         /\ \E ret \in RetIf(stmts[s].usedByStmt, hs, stmts[s].h),
               fr \in FreeIf(~stmts[s].usedByStmt) :
              LET r == StmtCloseByRows(stmts[s], hs, ret, fr)
              IN /\ stmts' = [stmts EXCEPT ![s] = r.st]
                 /\ hs' = r.hs
                 /\ rowsHeld' = rowsHeld \ {s}
                 /\ lastRet' = Ret("RowsClose", r.err, c.bad,
                                   IF stmts[s].usedByStmt THEN {"SQLCloseCursor"}
                                   ELSE {"SQLFreeHandle"})
    /\ UNCHANGED <<c, closingInBG, varsFn, nextH, hostpc, execs, curExec, ctxDone, odbc, txHeld, errSeen>>

\* the state after Driver.Open returned the connection
InitST ==
    /\ c = [h |-> ConnHandle, tx |-> NoTx, bad |-> FALSE]
    /\ closingInBG = FALSE
    /\ hs = [alloc |-> {ConnHandle}, freeLog |-> <<>>, StmtCount |-> 0, ConnCount |-> 1]
    /\ nextH = ConnHandle + 1
    /\ hostpc = "idle"
    /\ lastRet = Ret("Open", "nil", FALSE, {})
    /\ stmts = [s \in 1..MaxHandle |-> EmptyStmtST]
    /\ rowsHeld = {}
    /\ execs = [e \in 1..MaxExec |-> NoCall]
    /\ curExec = 1
    /\ ctxDone = FALSE
    /\ odbc = [o \in 1..MaxHandle |-> EmptyODBCStmt]
    /\ txHeld = FALSE
    /\ errSeen = FALSE
    /\ FnIdle

NextST ==
    \/ STPrepare
    \/ STStmtClose
    \/ STStmtExec
    \/ STStmtQuery
    \/ STCloseByStmt
    \/ STRowsClose

SpecST == InitST /\ [][NextST]_vars

\* ------------------------------------------------------------------------
\* Properties of SpecST
\* ------------------------------------------------------------------------
\* C2: an Exec or Query called on a statement whose Rows are still open
\* goes on to run on a newly prepared handle (it is never stopped at the
\* point where it has to let go of the old one), and no handle is freed
\* twice.
C2_ReprepareOnOpenRows ==
    /\ (hostpc = "wait" /\ execs[curExec].kind \in {"exec", "query"}) => ENABLED STCloseByStmt
    /\ \A handle \in ConnHandle..(ConnHandle + MaxHandle) : FreeCalls(handle) <= 1

\* ------------------------------------------------------------------------
\* Properties of SpecOS: ownership of the statement handle
\* ------------------------------------------------------------------------
\* the handle SQLAllocHandle returned for the o-th statement of the connection
HandleOf(o) == ConnHandle + o
Allocated(o) == HandleOf(o) < nextH
InUse(o) == odbc[o].usedByStmt \/ odbc[o].usedByRows

\* C11: a Stmt.Close called while the statement's Rows are open frees
\* nothing and leaves the handle with the Rows; as long as database/sql
\* holds the Rows their handle is allocated; the Rows.Close that comes after
\* the statement let go calls SQLFreeHandle and, when that succeeds, takes
\* StmtCount down by one; and at every moment a statement handle has been
\* freed once if neither the statement nor the Rows use it and never if
\* one of them does.
C11_StmtCloseStep ==
    \A s \in 1..MaxStmt :
      (OSStmtClose /\ stmts[s].os # 0 /\ stmts'[s].os = 0 /\ odbc[stmts[s].os].usedByRows)
      => /\ hs' = hs
         /\ odbc'[stmts[s].os].h = odbc[stmts[s].os].h
         /\ lastRet'.res = "nil"

C11_RowsCloseStep ==
    \A o \in 1..MaxHandle :
      (OSRowsClose /\ o \in rowsHeld /\ o \notin rowsHeld' /\ ~odbc[o].usedByStmt)
      => /\ FreeCalls(HandleOf(o)) = 0
         /\ hs'.freeLog = Append(hs.freeLog, HandleOf(o))
         /\ lastRet'.res = "nil" => hs'.StmtCount = hs.StmtCount - 1

C11_Ownership ==
    /\ \A o \in rowsHeld : odbc[o].h = HandleOf(o) /\ odbc[o].h \in hs.alloc
    /\ \A o \in 1..MaxHandle :
         Allocated(o) => FreeCalls(HandleOf(o)) = (IF InUse(o) THEN 0 ELSE 1)

C11_LastCloseFrees ==
    /\ []C11_Ownership
    /\ [][C11_StmtCloseStep /\ C11_RowsCloseStep]_vars

\* the one statement prepared was closed with its Rows open, and the
\* Rows.Close after it freed the handle
C11_Witness ==
    /\ hostpc = "idle" /\ nextH = HandleOf(1) + 1 /\ stmts[1].used /\ stmts[1].os = 0
    /\ lastRet.op = "RowsClose" /\ lastRet.calls = {"SQLFreeHandle"} /\ lastRet.res = "nil"
    /\ hs.freeLog = <<HandleOf(1)>> /\ hs.StmtCount = 0

\* ------------------------------------------------------------------------
\* C12: Rows.Close and the statement handle (SpecST)
\* ------------------------------------------------------------------------

\* C12 as stated: Rows.Close closes the cursor with SQLCloseCursor and
\* never frees the statement handle or decrements StmtCount, whatever state
\* the owning statement is in, a statement already closed included
C12_RowsCloseNeverFrees ==
    [][STRowsClose =>
         /\ hs'.freeLog = hs.freeLog
         /\ hs'.StmtCount = hs.StmtCount
         /\ lastRet'.calls = {"SQLCloseCursor"}]_vars

C12_Step ==
    \A s \in 1..MaxHandle :
      (STRowsClose /\ s \in rowsHeld /\ s \notin rowsHeld')
      => IF stmts[s].usedByStmt
         THEN /\ hs' = hs
              /\ stmts'[s].h = stmts[s].h
              /\ lastRet'.calls = {"SQLCloseCursor"}
         ELSE /\ hs'.freeLog = Append(hs.freeLog, stmts[s].h)
              /\ stmts'[s].h = NULL
              /\ lastRet'.calls = {"SQLFreeHandle"}
              /\ lastRet'.res = "nil" => hs'.StmtCount = hs.StmtCount - 1

\* C12 amended: Rows.Close on a statement that is still open closes the
\* cursor with SQLCloseCursor and leaves the handle and StmtCount alone; on
\* a statement on which Close was already called it frees the handle
\* instead, and StmtCount goes down by one when the free succeeds
C12_RowsCloseFreesOnlyAfterStmtClose == [][C12_Step]_vars

\* Rows.Close has just returned on a statement that is still open
C12_Witness ==
    /\ lastRet.op = "RowsClose"
    /\ lastRet.calls = {"SQLCloseCursor"}
    /\ stmts[1].usedByStmt
    /\ ~stmts[1].usedByRows
    /\ stmts[1].h \in hs.alloc
    /\ hs.freeLog = <<>>
    /\ hs.StmtCount = 1

\* ------------------------------------------------------------------------
\* C13: query / rows-close rounds on one statement (SpecOS)
\* ------------------------------------------------------------------------
Prepared(o) == odbc[o].usedByStmt /\ ~odbc[o].usedByRows /\ odbc[o].h = HandleOf(o)

\* Rows.Close on a statement that is still open leaves it Prepared on the
\* same handle, and no handle is freed or counted
C13_RowsCloseStep ==
    \A o \in 1..MaxHandle :
      (OSRowsClose /\ o \in rowsHeld /\ o \notin rowsHeld' /\ odbc[o].usedByStmt)
      => /\ Prepared(o)'
         /\ hs' = hs
         /\ nextH' = nextH

\* Exec or Query leaves every Prepared statement on the handle it has, and
\* when no statement has rows open it allocates and frees nothing:
\* StmtCount is as before
C13_CallStep ==
    (OSStmtExec \/ OSStmtQuery)
    => /\ \A s \in 1..MaxStmt :
            (stmts[s].used /\ stmts[s].os # 0 /\ Prepared(stmts[s].os))
            => /\ stmts'[s].os = stmts[s].os
               /\ odbc'[stmts[s].os].h = odbc[stmts[s].os].h
               /\ odbc'[stmts[s].os].usedByStmt
       /\ (\A s \in 1..MaxStmt :
             (stmts[s].used /\ stmts[s].os # 0) => Prepared(stmts[s].os))
          => /\ nextH' = nextH
             /\ hs' = hs

\* C13: after Rows.Close on a statement that is still open the statement
\* is Prepared again, the next Query or Exec runs on the same handle
\* without preparing again, and a round of Query and Rows.Close leaves
\* StmtCount where it was, so no number of rounds increases it
C13_RoundsKeepHandle == [][C13_RowsCloseStep /\ C13_CallStep]_vars

\* Rows.Close has just closed the cursor of the one statement prepared so
\* far, which Query can now run again on the same handle
C13_Witness ==
    /\ lastRet.op = "RowsClose"
    /\ lastRet.calls = {"SQLCloseCursor"}
    /\ stmts[1].used /\ stmts[1].os = 1
    /\ Prepared(1)
    /\ nextH = HandleOf(1) + 1
    /\ hs.StmtCount = 1
    /\ ENABLED OSStmtQuery

\* ------------------------------------------------------------------------
\* C14: Stmt.Close on a closed statement (SpecBG)
\* ------------------------------------------------------------------------
ClosedBG(s) == stmts[s].alive /\ ~stmts[s].internal /\ stmts[s].h = NULL

\* C14: Stmt.Close on a statement that is already closed returns an error,
\* calls SQLFreeHandle no second time and leaves the handles and StmtCount
\* as they are
C14_SecondCloseIsError ==
    [][(HostStmtClose
          /\ (\E s \in 1..MaxStmt : ClosedBG(s))
          /\ (\A t \in 1..MaxStmt : (stmts[t].alive /\ ~stmts[t].internal) => ClosedBG(t)))
       => /\ lastRet'.res = "Error"
          /\ "SQLFreeHandle" \notin lastRet'.calls
          /\ hs' = hs]_vars

\* ------------------------------------------------------------------------
\* C15: the order of Conn.Close (SpecOS)
\* ------------------------------------------------------------------------
Position(seq, x) == CHOOSE k \in 1..Len(seq) : seq[k] = x
Occurs(seq, x) == Cardinality({k \in 1..Len(seq) : seq[k] = x})

C15_Step ==
    OSConnClose =>
      LET order == lastRet'.order
          n == Len(order)
      IN /\ c.tx.active <=> Occurs(order, "SQLEndTran") = 1
         /\ c.tx.active => Position(order, "SQLEndTran") = 1
         /\ Occurs(order, "SQLDisconnect") = 1
         /\ Occurs(order, "SQLFreeHandle") = 1
         /\ order[n - 1] = "SQLDisconnect"
         /\ order[n] = "SQLFreeHandle"
         /\ hs'.freeLog = Append(hs.freeLog, c.h)
         /\ c'.h = NULL
         /\ hs'.ConnCount = IF c.h \in hs'.alloc THEN hs.ConnCount ELSE hs.ConnCount - 1
         /\ hs'.StmtCount = hs.StmtCount

\* C15: Conn.Close rolls an active transaction back first, then calls
\* SQLDisconnect, then frees the connection handle; the handle is freed
\* exactly once and ConnCount decremented exactly once by that free,
\* whether SQLDisconnect failed or not
C15_CloseOrder ==
    /\ [][C15_Step]_vars
    /\ [](FreeCalls(ConnHandle) <= 1 /\ hs.ConnCount \in {0, 1})
    /\ []((lastRet.op = "ConnClose" /\ ConnHandle \notin hs.alloc) => hs.ConnCount = 0)

\* Conn.Close was called inside a transaction, SQLDisconnect failed, and
\* the connection handle was freed all the same
C15_Witness ==
    /\ hostpc = "closed"
    /\ lastRet.op = "ConnClose"
    /\ lastRet.res = "ErrBadConn"
    /\ lastRet.order = <<"SQLEndTran", "SQLSetConnectAttr", "SQLDisconnect", "SQLFreeHandle">>
    /\ hs.freeLog = <<ConnHandle>>
    /\ ConnHandle \notin hs.alloc
    /\ hs.ConnCount = 0
    /\ c.bad /\ ~c.tx.active

\* ------------------------------------------------------------------------
\* C16: statements of a freed connection (SpecOS)
\* ------------------------------------------------------------------------

\* C16: once the connection handle has been freed, no statement handle
\* that was allocated on it is still allocated
C16_NoStmtOutlivesConn ==
    (FreeCalls(ConnHandle) = 1 /\ ConnHandle \notin hs.alloc)
    => /\ \A o \in 1..MaxHandle : HandleOf(o) \notin hs.alloc
       /\ hs.StmtCount = 0

\* ------------------------------------------------------------------------
\* C17: 08S01 and the bad flag (SpecOS)
\* ------------------------------------------------------------------------

\* C17: whichever ODBC call of a driver call fails with sqlstate 08S01
\* (the call then returns ErrBadConn), the connection's bad flag is set by
\* the time the driver call returns
C17_LostLinkMarksBad ==
    [][((OSPrepare \/ OSStmtExec \/ OSStmtQuery \/ OSRowsClose \/ OSCommit
           \/ OSRollback \/ OSConnClose)
        /\ lastRet'.res = "ErrBadConn")
       => c'.bad]_vars

\* ------------------------------------------------------------------------
\* SpecNE: NewError (part_021) on one handle's diagnostic records
\* ------------------------------------------------------------------------
MaxDiag == 2
SQL_MAX_MESSAGE_LENGTH == 512
SQLSTATE_LEN == 6

\* sqlstates and message texts as UTF-16 code units
State08S01 == <<48, 56, 83, 48, 49>>
State01004 == <<48, 49, 48, 48, 52>>
StateHY000 == <<72, 89, 48, 48, 48>>
Sqlstates == {State08S01, State01004, StateHY000}
Messages == {<<77>>, <<77, 115>>}

\* the records the driver manager holds for the handle
DiagRecs == [State : Sqlstates, NativeError : {0}, Message : Messages]
DiagAreas == UNION {[1..n -> DiagRecs] : n \in 0..MaxDiag}

\* the driver manager writes a text and its NUL into the caller's buffer
WriteText(buf, text) ==
    [k \in 1..Len(buf) |-> IF k <= Len(text) THEN text[k]
                           ELSE IF k = Len(text) + 1 THEN 0 ELSE buf[k]]

\* api.UTF16ToString: the units before the first NUL
UTF16ToString(s) ==
    LET nul == {k \in 1..Len(s) : s[k] = 0}
    IN IF nul = {} THEN s
       ELSE SubSeq(s, 1, (CHOOSE k \in nul : \A j \in nul : k <= j) - 1)

\* SQLGetDiagRec for record i: SQL_INVALID_HANDLE on a handle the driver
\* manager does not know, SQL_NO_DATA past the last record, else the record
\* is written into the caller's buffers
SQLGetDiagRec(d, i) ==
    IF ~d.valid THEN [ret |-> "invalid", state |-> d.state, ne |-> d.ne, msg |-> d.msg]
    ELSE IF i > Len(d.recs) THEN [ret |-> "no_data", state |-> d.state, ne |-> d.ne, msg |-> d.msg]
    ELSE [ret |-> "ok", state |-> WriteText(d.state, d.recs[i].State),
          ne |-> d.recs[i].NativeError, msg |-> WriteText(d.msg, d.recs[i].Message)]

\* NewError entered: err.Diag is empty, the buffers are zeroed, i is 1
NewErrorCall(valid, recs) ==
    [pc |-> "loop", valid |-> valid, recs |-> recs, i |-> 1, asked |-> <<>>,
     state |-> [k \in 1..SQLSTATE_LEN |-> 0], ne |-> 0,
     msg |-> [k \in 1..SQL_MAX_MESSAGE_LENGTH |-> 0],
     Diag |-> <<>>, res |-> "none"]

\* one turn of the loop that takes 08S01 for a lost link only in record 1
NewErrorIter_FirstRecordOnly(d) ==
    LET g == SQLGetDiagRec(d, d.i)
        d1 == [d EXCEPT !.state = g.state, !.ne = g.ne, !.msg = g.msg,
                        !.asked = Append(@, d.i)]
        r == [State |-> UTF16ToString(g.state), NativeError |-> g.ne,
              Message |-> UTF16ToString(g.msg)]
    IN IF g.ret = "no_data" THEN [d1 EXCEPT !.pc = "done", !.res = "Error"]
       ELSE IF g.ret # "ok" THEN [d1 EXCEPT !.pc = "done", !.res = "GetDiagRecFailed"]
       ELSE IF r.State = State08S01 /\ d.i = 1 THEN [d1 EXCEPT !.pc = "done", !.res = "ErrBadConn"]
       ELSE [d1 EXCEPT !.Diag = Append(@, r), !.i = @ + 1]

\* one turn of NewError's loop: SQLGetDiagRec(i); no-data ends the loop and
\* err is returned, a failure returns a plain error, a record in state
\* 08S01 returns driver.ErrBadConn, any other record is appended to err.Diag
NewErrorIter(d) ==
    LET g == SQLGetDiagRec(d, d.i)
        d1 == [d EXCEPT !.state = g.state, !.ne = g.ne, !.msg = g.msg,
                        !.asked = Append(@, d.i)]
        r == [State |-> UTF16ToString(g.state), NativeError |-> g.ne,
              Message |-> UTF16ToString(g.msg)]
    IN IF g.ret = "no_data" THEN [d1 EXCEPT !.pc = "done", !.res = "Error"]
       ELSE IF g.ret # "ok" THEN [d1 EXCEPT !.pc = "done", !.res = "GetDiagRecFailed"]
       ELSE IF r.State = State08S01 THEN [d1 EXCEPT !.pc = "done", !.res = "ErrBadConn"]
       ELSE [d1 EXCEPT !.Diag = Append(@, r), !.i = @ + 1]

NewErrorLoop ==
    /\ diag.pc = "loop"
    /\ diag' = NewErrorIter(diag)
    /\ UNCHANGED <<c, closingInBG, hs, nextH, hostpc, lastRet, stmts, rowsHeld, execs,
                   curExec, ctxDone, tasks, ex, varsOS, cols, gd,
                   bcol, par, opens, attrs>>

\* the driver calls are at rest while one of the functions is followed
DriverIdle ==
    /\ c = [h |-> ConnHandle, tx |-> NoTx, bad |-> FALSE]
    /\ closingInBG = FALSE
    /\ hs = [alloc |-> {ConnHandle}, freeLog |-> <<>>, StmtCount |-> 0, ConnCount |-> 1]
    /\ nextH = ConnHandle + 1
    /\ hostpc = "idle"
    /\ lastRet = Ret("Open", "nil", FALSE, {})
    /\ stmts = [s \in 1..MaxStmt |-> EmptyStmtST]
    /\ rowsHeld = {}
    /\ execs = [e \in 1..MaxExec |-> NoCall]
    /\ curExec = 1
    /\ ctxDone = FALSE
    /\ odbc = [o \in 1..MaxHandle |-> EmptyODBCStmt]
    /\ txHeld = FALSE
    /\ errSeen = FALSE

\* NewError is called on a handle with any records, or on a handle the
\* driver manager does not know (it holds no records for it)
InitNE ==
    /\ DriverIdle
    /\ \/ \E recs \in DiagAreas : diag = NewErrorCall(TRUE, recs)
       \/ diag = NewErrorCall(FALSE, <<>>)
    /\ cols = NoCallFn
    /\ gd = NoCallFn
    /\ bcol = NoCallFn /\ par = NoCallFn /\ opens = NoCallFn /\ attrs = NoCallFn
    /\ tasks = NoCallFn /\ ex = NoCallFn

NextNE == NewErrorLoop

SpecNE == InitNE /\ [][NextNE]_vars

\* ------------------------------------------------------------------------
\* C18: what NewError returns (SpecNE)
\* ------------------------------------------------------------------------
HasLostLink(recs) == \E k \in 1..Len(recs) : recs[k].State = State08S01
FirstN(n) == [k \in 1..n |-> k]

\* C18 as stated: NewError returns ErrBadConn exactly when some record is
\* in state 08S01, and otherwise an Error whose Diag holds every record in
\* record order
C18_BadConnOrEveryRecord ==
    diag.pc = "done" =>
      IF HasLostLink(diag.recs) THEN diag.res = "ErrBadConn"
      ELSE diag.res = "Error" /\ diag.Diag = diag.recs

\* C18 amended: on a handle the driver manager knows, NewError asks for the
\* records 1, 2, ... in turn, returns ErrBadConn exactly when some record
\* is in state 08S01, and otherwise reads on until no-data and returns an
\* Error whose Diag holds every record in record order; on a handle the
\* driver manager does not know it returns the plain error of the failed
\* SQLGetDiagRec, with no record
C18_NewErrorLaw ==
    /\ diag.asked = FirstN(Len(diag.asked))
    /\ diag.pc = "done" =>
         IF ~diag.valid THEN diag.res = "GetDiagRecFailed" /\ diag.Diag = <<>>
         ELSE IF HasLostLink(diag.recs) THEN diag.res = "ErrBadConn"
         ELSE /\ diag.res = "Error"
              /\ diag.Diag = diag.recs
              /\ diag.asked = FirstN(Len(diag.recs) + 1)

\* NewError has returned ErrBadConn for a handle whose second record is
\* the one in state 08S01
C18_Witness ==
    /\ diag.pc = "done"
    /\ diag.res = "ErrBadConn"
    /\ Len(diag.recs) = 2
    /\ diag.recs[1].State = StateHY000
    /\ diag.recs[2].State = State08S01
    /\ diag.asked = <<1, 2>>

\* ------------------------------------------------------------------------
\* SpecBC: Stmt.bindColumns over the result sets of one statement
\* (stmt.go, driver_go18.go)
\* ------------------------------------------------------------------------
MaxCols == 2

\* what NewColumn makes of a column's SQL type: a BindableColumn or a
\* NonBindableColumn
ColumnKinds == {"bindable", "nonbindable"}
\* the shapes a result set can have; <<>> is a statement that created none
Shapes == UNION {[1..n -> ColumnKinds] : n \in 0..MaxCols}
\* where an ODBC call of bindColumns fails: nowhere, in SQLNumResultCols,
\* in SQLDescribeCol (NewColumn) or in SQLBindCol of column at
BindFailures ==
    {[in |-> "none", at |-> 0], [in |-> "numcols", at |-> 0]}
    \cup [in : {"describe", "bind"}, at : 1..MaxCols]

NoColumn == [kind |-> "nil", IsBound |-> FALSE]
Unbound == [k \in 1..MaxCols |-> "none"]

\* SQLBindCol on column i: the handle keeps the binding until the column
\* is bound again or the handle is freed; the driver never unbinds
SQLBindCol(bound, i) == [bound EXCEPT ![i] = "fresh"]

\* the loop of bindColumns from column i on: NewColumn describes the
\* column (a new Column, not bound); while binding is on, Bind binds a
\* BindableColumn with SQLBindCol and a NonBindableColumn turns binding off
RECURSIVE bindLoop(_, _, _, _)
bindLoop(i, shape, fail, st) ==
    IF i > Len(shape) THEN st
    ELSE IF fail.in = "describe" /\ fail.at = i THEN [st EXCEPT !.err = "Error"]
    ELSE LET st1 == [st EXCEPT !.cols[i] = [kind |-> shape[i], IsBound |-> FALSE]]
         IN IF ~st.binding THEN bindLoop(i + 1, shape, fail, st1)
            ELSE IF shape[i] = "nonbindable"
            THEN bindLoop(i + 1, shape, fail, [st1 EXCEPT !.binding = FALSE])
            ELSE IF fail.in = "bind" /\ fail.at = i THEN [st1 EXCEPT !.err = "Error"]
            ELSE bindLoop(i + 1, shape, fail,
                          [st1 EXCEPT !.cols[i].IsBound = TRUE,
                                      !.bound = SQLBindCol(@, i)])

\* Stmt.bindColumns on a result set of the given shape: SQLNumResultCols,
\* a new s.cols (the buffers of the columns it replaces are let go, the
\* bindings the handle holds to them stay), then the loop
bindColumns(s, shape, fail) ==
    IF fail.in = "numcols" THEN [cols |-> s.cols, bound |-> s.bound, err |-> "Error"]
    ELSE IF Len(shape) < 1 THEN [cols |-> s.cols, bound |-> s.bound, err |-> "Error"]
    ELSE LET r == bindLoop(1, shape, fail,
                           [cols |-> [k \in 1..Len(shape) |-> NoColumn],
                            bound |-> [k \in 1..MaxCols |->
                                         IF s.bound[k] = "none" THEN "none" ELSE "stale"],
                            binding |-> TRUE, err |-> "nil"])
         IN [cols |-> r.cols, bound |-> r.bound, err |-> r.err]

\* Stmt.Query (stmt.go) on the prepared statement: exec, bindColumns, Rows
BCQuery ==
    /\ cols.pc = "prepared"
    /\ \E execOk \in BOOLEAN :
       \E fail \in (IF execOk THEN BindFailures ELSE {[in |-> "none", at |-> 0]}) :
         IF ~execOk
         THEN cols' = [cols EXCEPT !.op = "Query", !.err = "Error"]
         ELSE LET r == bindColumns(cols, cols.first, fail)
              IN cols' = [cols EXCEPT !.cur = cols.first, !.cols = r.cols, !.bound = r.bound,
                                      !.op = "Query", !.err = r.err,
                                      !.pc = IF r.err = "nil" THEN "rows" ELSE "prepared"]
    /\ UNCHANGED <<c, closingInBG, hs, nextH, hostpc, lastRet, stmts, rowsHeld, execs,
                   curExec, ctxDone, tasks, ex, varsOS, diag, gd,
                   bcol, par, opens, attrs>>

\* Rows.NextResultSet (driver_go18.go): SQLMoreResults answers no-data
\* (io.EOF), an error, or moves on to a result set of any shape, for which
\* bindColumns is called again
BCNextResultSet ==
    /\ cols.pc = "rows"
    /\ \E more \in {"ok", "no_data", "err"} :
         IF more = "no_data"
         THEN cols' = [cols EXCEPT !.op = "NextResultSet", !.err = "EOF"]
         ELSE IF more = "err"
         THEN cols' = [cols EXCEPT !.op = "NextResultSet", !.err = "Error"]
         ELSE \E shape \in Shapes, fail \in BindFailures :
                LET r == bindColumns(cols, shape, fail)
                IN cols' = [cols EXCEPT !.cur = shape, !.cols = r.cols, !.bound = r.bound,
                                        !.op = "NextResultSet", !.err = r.err]
    /\ UNCHANGED <<c, closingInBG, hs, nextH, hostpc, lastRet, stmts, rowsHeld, execs,
                   curExec, ctxDone, tasks, ex, varsOS, diag, gd,
                   bcol, par, opens, attrs>>

\* Rows.Next (driver_go18.go) on a row that SQLFetch delivered: Value of
\* a bound BindableColumn takes the bound buffer, every other column calls
\* SQLGetData
BCRowsNext ==
    /\ cols.pc = "rows"
    /\ cols.err \in {"nil", "EOF"}
    /\ Len(cols.cols) = Len(cols.cur)
    /\ cols' = [cols EXCEPT !.op = "Next",
                            !.read = [k \in 1..Len(cols.cols) |->
                                        IF cols.cols[k].kind = "bindable" /\ cols.cols[k].IsBound
                                        THEN "buffer" ELSE "getdata"]]
    /\ UNCHANGED <<c, closingInBG, hs, nextH, hostpc, lastRet, stmts, rowsHeld, execs,
                   curExec, ctxDone, tasks, ex, varsOS, diag, gd,
                   bcol, par, opens, attrs>>

\* Rows.Close (driver_go18.go): SQLCloseCursor; the statement can be
\* queried again
BCRowsClose ==
    /\ cols.pc = "rows"
    /\ \E ret \in {"ok", "err"} :
         cols' = [cols EXCEPT !.pc = "prepared", !.op = "RowsClose", !.read = <<>>,
                              !.err = IF ret = "ok" THEN "nil" ELSE "Error"]
    /\ UNCHANGED <<c, closingInBG, hs, nextH, hostpc, lastRet, stmts, rowsHeld, execs,
                   curExec, ctxDone, tasks, ex, varsOS, diag, gd,
                   bcol, par, opens, attrs>>

\* a statement was prepared whose first result set has any shape
InitBC ==
    /\ DriverIdle
    /\ \E first \in Shapes :
         cols = [pc |-> "prepared", first |-> first, cur |-> <<>>, cols |-> <<>>,
                 bound |-> Unbound, op |-> "Prepare", err |-> "nil", read |-> <<>>]
    /\ diag = NoCallFn
    /\ gd = NoCallFn
    /\ bcol = NoCallFn /\ par = NoCallFn /\ opens = NoCallFn /\ attrs = NoCallFn
    /\ tasks = NoCallFn /\ ex = NoCallFn

NextBC ==
    \/ BCQuery
    \/ BCNextResultSet
    \/ BCRowsNext
    \/ BCRowsClose

SpecBC == InitBC /\ [][NextBC]_vars

\* ------------------------------------------------------------------------
\* C19: the bound columns of the current result set (SpecBC)
\* ------------------------------------------------------------------------
\* the columns before the first non-bindable column of a result set
BindablePrefix(shape) ==
    {k \in 1..Len(shape) : \A j \in 1..k : shape[j] = "bindable"}
BoundOnHandle == {k \in 1..MaxCols : cols.bound[k] # "none"}

\* C19: after Query and after every successful NextResultSet the columns
\* bound on the statement handle are exactly the columns before the first
\* non-bindable column of the current result set, no binding of an earlier
\* result set is left, and Rows.Next reads the other columns with
\* SQLGetData
C19_BoundPrefixOnly ==
    /\ (cols.pc = "rows" /\ cols.op \in {"Query", "NextResultSet"} /\ cols.err = "nil")
       => /\ BoundOnHandle = BindablePrefix(cols.cur)
          /\ \A k \in BoundOnHandle : cols.bound[k] = "fresh"
    /\ (cols.pc = "rows" /\ cols.op = "Next")
       => \A k \in 1..Len(cols.cur) :
            cols.read[k] = (IF k \in BindablePrefix(cols.cur) THEN "buffer" ELSE "getdata")

\* ------------------------------------------------------------------------
\* SpecGD: NonBindableColumn.Value (column.go) on one column of one row
\* ------------------------------------------------------------------------
MaxPayload == 2056
GetDataBufferLen == 1024
SQL_NO_TOTAL == -4
SQL_NULL_DATA == -1
surr1 == 55296
surr2 == 56320
surr3 == 57344
replacementChar == 65533

CTypes == {"SQL_C_CHAR", "SQL_C_WCHAR", "SQL_C_BINARY"}

\* the bytes SQLGetData puts after the data: a NUL character for the two
\* text types, nothing for binary data
Terminator(ctype) ==
    IF ctype = "SQL_C_WCHAR" THEN 2 ELSE IF ctype = "SQL_C_CHAR" THEN 1 ELSE 0

\* the column's data: UTF-16 units of one, two and three UTF-8 bytes, a
\* surrogate pair and a lone surrogate for SQL_C_WCHAR (low byte first),
\* bytes that tell their position for the other types
UnitPattern == <<97, 233, 8364, 55357, 56832, 56832, 98, 99, 100, 101, 102>>
PayloadUnit(j) == UnitPattern[((j - 1) % Len(UnitPattern)) + 1]
PayloadByte(ctype, k) ==
    IF ctype = "SQL_C_WCHAR"
    THEN LET u == PayloadUnit((k + 1) \div 2)
         IN IF k % 2 = 1 THEN u % 256 ELSE u \div 256
    ELSE IF ctype = "SQL_C_CHAR" THEN 1 + ((k - 1) % 251)
    ELSE (k - 1) % 251
Payload(ctype, n) == [k \in 1..n |-> PayloadByte(ctype, k)]
PayloadSizes(ctype) ==
    {n \in 0..MaxPayload : ctype = "SQL_C_WCHAR" => n % 2 = 0}

\* SQLGetData into a buffer of len(b) bytes, for a driver that fills the
\* buffer (less the terminator, whole characters only) and answers
\* SQL_SUCCESS_WITH_INFO with sqlstate 01004 while data remains: l is the
\* number of bytes that remained before the call, or SQL_NO_TOTAL; NULL is
\* answered by SQL_SUCCESS with l = SQL_NULL_DATA
SQLGetData(g) ==
    LET t == Terminator(g.ctype)
        room == Len(g.b) - t
        cap == IF g.ctype = "SQL_C_WCHAR" THEN room - (room % 2) ELSE room
        remaining == g.N - g.pos
    IN IF g.null THEN [ret |-> "SQL_SUCCESS", l |-> SQL_NULL_DATA, b |-> g.b, pos |-> g.pos,
                       state |-> <<>>]
       ELSE IF remaining > cap
       THEN [ret |-> "SQL_SUCCESS_WITH_INFO", state |-> State01004,
             l |-> IF g.noTotal THEN SQL_NO_TOTAL ELSE remaining,
             b |-> [k \in 1..Len(g.b) |->
                      IF k <= cap THEN PayloadByte(g.ctype, g.pos + k)
                      ELSE IF k <= cap + t THEN 0 ELSE g.b[k]],
             pos |-> g.pos + cap]
       ELSE [ret |-> "SQL_SUCCESS", l |-> remaining, state |-> <<>>,
             b |-> [k \in 1..Len(g.b) |->
                      IF k <= remaining THEN PayloadByte(g.ctype, g.pos + k)
                      ELSE IF k <= remaining + t THEN 0 ELSE g.b[k]],
             pos |-> g.N]

\* utf8.EncodeRune
EncodeRune(r) ==
    IF r < 128 THEN <<r>>
    ELSE IF r < 2048 THEN <<192 + (r \div 64), 128 + (r % 64)>>
    ELSE IF r < 65536
    THEN <<224 + (r \div 4096), 128 + ((r \div 64) % 64), 128 + (r % 64)>>
    ELSE <<240 + (r \div 262144), 128 + ((r \div 4096) % 64),
           128 + ((r \div 64) % 64), 128 + (r % 64)>>

\* utf16.DecodeRune of a valid surrogate pair
DecodeRune(r1, r2) == (r1 - surr1) * 1024 + (r2 - surr2) + 65536

\* what utf16toutf8's loop appends for the unit at position k: a valid
\* surrogate pair is encoded at its first unit and its second unit is
\* skipped, any other surrogate becomes the replacement character
RuneBytes(s, k) ==
    LET r == s[k]
    IN IF surr1 <= r /\ r < surr2 /\ k + 1 <= Len(s) /\ surr2 <= s[k + 1] /\ s[k + 1] < surr3
       THEN EncodeRune(DecodeRune(r, s[k + 1]))
       ELSE IF surr2 <= r /\ r < surr3 /\ k > 1 /\ surr1 <= s[k - 1] /\ s[k - 1] < surr2
       THEN <<>>
       ELSE IF surr1 <= r /\ r < surr3 THEN EncodeRune(replacementChar)
       ELSE EncodeRune(r)

RECURSIVE RunesBytes(_, _, _)
RunesBytes(s, lo, hi) ==
    IF lo > hi THEN <<>>
    ELSE IF lo = hi THEN RuneBytes(s, lo)
    ELSE LET mid == (lo + hi) \div 2
         IN RunesBytes(s, lo, mid) \o RunesBytes(s, mid + 1, hi)

\* utf16toutf8 (part_002): the units before the first NUL, in UTF-8
utf16toutf8(s) ==
    LET u == UTF16ToString(s)
    IN RunesBytes(u, 1, Len(u))

\* the []uint16 view of a byte buffer (low byte first), len(buf)/2 units
Uint16s(buf) == [j \in 1..(Len(buf) \div 2) |-> buf[2 * j - 1] + 256 * buf[2 * j]]

\* BaseColumn.Value for the three C types of a NonBindableColumn
BaseColumnValue(ctype, buf) ==
    IF ctype = "SQL_C_WCHAR" /\ Len(buf) > 0 THEN utf16toutf8(Uint16s(buf)) ELSE buf

\* NonBindableColumn.Value entered: l and total are zero values, b is a
\* new buffer of 1024 bytes
ValueCall(ctype, n, noTotal, null) ==
    [pc |-> "loop", ctype |-> ctype, N |-> n, noTotal |-> noTotal, null |-> null,
     pos |-> 0, b |-> [k \in 1..GetDataBufferLen |-> 0], l |-> 0, total |-> <<>>,
     calls |-> 0, res |-> "none", value |-> <<>>]

\* one turn of the loop that keeps the terminator of a truncated read
ValueIter_KeepsTerminator(g) ==
    LET d == SQLGetData(g)
        g1 == [g EXCEPT !.b = d.b, !.l = d.l, !.pos = d.pos, !.calls = @ + 1]
    IN IF d.ret = "SQL_SUCCESS"
       THEN IF d.l = SQL_NULL_DATA THEN [g1 EXCEPT !.pc = "done", !.res = "nil"]
            ELSE IF d.l > Len(g1.b) THEN [g1 EXCEPT !.pc = "done", !.res = "Error"]
            ELSE LET total == g.total \o SubSeq(g1.b, 1, d.l)
                 IN [g1 EXCEPT !.total = total, !.pc = "done", !.res = "value",
                               !.value = BaseColumnValue(g.ctype, total)]
       ELSE IF d.state # State01004 THEN [g1 EXCEPT !.pc = "done", !.res = "Error"]
       ELSE LET i == Len(g1.b)
                n == d.l - i + 2
            IN [g1 EXCEPT !.total = @ \o SubSeq(g1.b, 1, i),
                          !.b = IF d.l # SQL_NO_TOTAL /\ Len(g1.b) < n
                                THEN [k \in 1..n |-> 0] ELSE @]

\* one turn of NonBindableColumn.Value's loop: SQLGetData; SQL_SUCCESS
\* ends the loop (nil for NULL, an error when l is larger than the buffer,
\* else the last piece is appended and BaseColumn.Value(total) returned);
\* SQL_SUCCESS_WITH_INFO with a first record other than 01004 is an
\* error, with 01004 it appends the buffer less the type's terminator and,
\* when the driver gave a total, makes the buffer large enough for the rest
ValueIter(g) ==
    LET d == SQLGetData(g)
        g1 == [g EXCEPT !.b = d.b, !.l = d.l, !.pos = d.pos, !.calls = @ + 1]
    IN IF d.ret = "SQL_SUCCESS"
       THEN IF d.l = SQL_NULL_DATA THEN [g1 EXCEPT !.pc = "done", !.res = "nil"]
            ELSE IF d.l > Len(g1.b) THEN [g1 EXCEPT !.pc = "done", !.res = "Error"]
            ELSE LET total == g.total \o SubSeq(g1.b, 1, d.l)
                 IN [g1 EXCEPT !.total = total, !.pc = "done", !.res = "value",
                               !.value = BaseColumnValue(g.ctype, total)]
       ELSE IF d.state # State01004 THEN [g1 EXCEPT !.pc = "done", !.res = "Error"]
       ELSE LET i == Len(g1.b) - Terminator(g.ctype)
                n == d.l - i + 2
            IN [g1 EXCEPT !.total = @ \o SubSeq(g1.b, 1, i),
                          !.b = IF d.l # SQL_NO_TOTAL /\ Len(g1.b) < n
                                THEN [k \in 1..n |-> 0] ELSE @]

ValueLoop ==
    /\ gd.pc = "loop"
    /\ gd' = ValueIter(gd)
    /\ UNCHANGED <<c, closingInBG, hs, nextH, hostpc, lastRet, stmts, rowsHeld, execs,
                   curExec, ctxDone, tasks, ex, varsOS, diag, cols,
                   bcol, par, opens, attrs>>

\* Value is called on a column of any of the three C types that is NULL
\* or holds any number of bytes, with a driver that reports totals or not
InitGD ==
    /\ DriverIdle
    /\ \E ctype \in CTypes, noTotal \in BOOLEAN :
         \/ \E n \in PayloadSizes(ctype) : gd = ValueCall(ctype, n, noTotal, FALSE)
         \/ gd = ValueCall(ctype, 0, noTotal, TRUE)
    /\ diag = NoCallFn
    /\ cols = NoCallFn
    /\ bcol = NoCallFn /\ par = NoCallFn /\ opens = NoCallFn /\ attrs = NoCallFn
    /\ tasks = NoCallFn /\ ex = NoCallFn

NextGD == ValueLoop

SpecGD == InitGD /\ [][NextGD]_vars

\* ------------------------------------------------------------------------
\* C20: the truncation law (SpecGD)
\* ------------------------------------------------------------------------

\* C20 as stated: for a column that holds N bytes, Value returns exactly
\* those N bytes in order, for every N, for SQL_C_CHAR, SQL_C_WCHAR and
\* SQL_C_BINARY, with and without totals
C20_ReturnsPayloadBytes ==
    (gd.pc = "done" /\ ~gd.null)
    => gd.res = "value" /\ gd.value = Payload(gd.ctype, gd.N)

\* C20 amended: Value puts together exactly the N bytes of the column in
\* order, for every N, for the three C types, with and without totals; it
\* returns them as they are for SQL_C_CHAR and SQL_C_BINARY, and for
\* SQL_C_WCHAR it returns their conversion from UTF-16 to UTF-8
C20_TruncationLaw ==
    /\ gd.pc = "loop" => gd.total = Payload(gd.ctype, gd.pos)
    /\ (gd.pc = "done" /\ ~gd.null)
       => /\ gd.res = "value"
          /\ gd.total = Payload(gd.ctype, gd.N)
          /\ gd.ctype # "SQL_C_WCHAR" => gd.value = gd.total
          /\ gd.ctype = "SQL_C_WCHAR" =>
               gd.value = utf16toutf8(Uint16s(Payload(gd.ctype, gd.N)))

\* Value has returned a text that the driver, giving no totals, delivered
\* in three reads of the 1024 byte buffer
C20_Witness ==
    /\ gd.pc = "done"
    /\ gd.res = "value"
    /\ gd.ctype = "SQL_C_CHAR"
    /\ gd.noTotal
    /\ gd.calls = 3
    /\ gd.N = 2 * (GetDataBufferLen - 1) + 1
    /\ Len(gd.value) = gd.N

\* ------------------------------------------------------------------------
\* SpecBV: BindableColumn.Value (column.go) on one column of one fetched row
\* ------------------------------------------------------------------------
\* widest variable-width column described by SQLDescribeCol
MaxColWidth == 2
\* NewBindableColumn: "always use small starting buffer"
MinBufferLen == 8
\* bytes of api.SQLLEN: C.SQLLEN is 4 bytes wide on a 32-bit build and 8
\* bytes wide on a 64-bit one
LenWidths == {4, 8}

\* a BufferLen is kept as its 16-bit limbs, low limb first, so that a value
\* keeps the width of the field
Limb == 65536
SQLLEN(v, w) ==
    [k \in 1..(w \div 2) |-> IF k = 1 THEN (IF v < 0 THEN Limb + v ELSE v)
                             ELSE IF v < 0 THEN Limb - 1 ELSE 0]
\* 0x7fffffff, and for an 8 byte field 0x00000000ffffffff and 0x1ffffffff
Max32(w) == [k \in 1..(w \div 2) |-> IF k = 1 THEN Limb - 1 ELSE IF k = 2 THEN 32767 ELSE 0]
Unextended32 == <<Limb - 1, Limb - 1, 0, 0>>
Over32 == <<Limb - 1, Limb - 1, 1, 0>>

\* BufferLen.IsNull: *l == api.SQL_NULL_DATA
IsNull(l) == l = SQLLEN(SQL_NULL_DATA, 2 * Len(l))

\* int(c.Len) is at least 0 and at most n
LenWithin(l, n) == l[1] <= n /\ \A k \in 2..Len(l) : l[k] = 0

\* NewBindableColumn and NewVariableWidthColumn for the columns of
\* NewColumn: the C type, Size and whether the column is variable-width;
\* the buffer has max(8, Size) bytes
FixedColumns ==
    {[CType |-> "SQL_C_BIT", Size |-> 1, IsVariableWidth |-> FALSE],
     [CType |-> "SQL_C_LONG", Size |-> 4, IsVariableWidth |-> FALSE]}
NewVariableWidthColumn(ctype, colWidth) ==
    [CType |-> ctype, IsVariableWidth |-> TRUE,
     Size |-> IF ctype = "SQL_C_WCHAR" THEN (colWidth + 1) * 2
              ELSE IF ctype = "SQL_C_CHAR" THEN colWidth + 1 ELSE colWidth]
BindableColumns ==
    FixedColumns \cup {NewVariableWidthColumn(t, n) : t \in CTypes, n \in 1..MaxColWidth}
BufferLenOf(col) == IF col.Size > MinBufferLen THEN col.Size ELSE MinBufferLen

\* what the driver has written into the column's buffer
BufferPatterns == {<<97, 0, 233, 0, 98, 0, 0, 0, 99, 100>>,
                   <<1, 2, 0, 0, 61, 216, 0, 222, 0, 0>>}
BufferOf(col, pat) == [k \in 1..BufferLenOf(col) |-> pat[((k - 1) % Len(pat)) + 1]]

\* the length cells a driver writes: the length of the data, or of the
\* data before truncation, SQL_NULL_DATA, SQL_NO_TOTAL, and the values of
\* TestBufferLen_IsNull
LenCells(w, col) ==
    {SQLLEN(v, w) : v \in {SQL_NULL_DATA, SQL_NO_TOTAL} \cup 0..(BufferLenOf(col) + 1)}
    \cup {Max32(w)} \cup (IF w = 8 THEN {Unextended32, Over32} ELSE {})

\* *((*int32)(p)) of the first four bytes, low byte first
Int32At(buf) ==
    LET hi == buf[3] + 256 * buf[4]
        lo == buf[1] + 256 * buf[2]
    IN IF hi >= 32768 THEN (hi - Limb) * Limb + lo ELSE hi * Limb + lo

\* BaseColumn.Value for the C types of BindableColumns
BaseColumnValueOf(ctype, buf) ==
    IF ctype = "SQL_C_BIT" THEN <<buf[1] # 0>>
    ELSE IF ctype = "SQL_C_LONG" THEN <<Int32At(buf)>>
    ELSE BaseColumnValue(ctype, buf)

\* a BindableColumn after the row was fetched.  A bound column has its
\* length cell and buffer written by SQLFetch; a column left unbound has the
\* cell of a new column and SQLGetData writes it during Value
BVCall(w, col, bound, cell, pat, ret) ==
    [pc |-> "call", w |-> w, col |-> col, IsBound |-> bound,
     Len |-> IF bound THEN cell ELSE SQLLEN(0, w),
     Buffer |-> BufferOf(col, pat), getData |-> [ret |-> ret, l |-> cell],
     res |-> "none", value |-> <<>>, isNull |-> FALSE]

\* BindableColumn.Value: SQLGetData for a column that is not bound, nil for
\* NULL, an error for a fixed-width column of the wrong length, else
\* BaseColumn.Value of c.Buffer[:c.Len]; the slice expression panics when
\* c.Len is negative or beyond the buffer
BindableColumnValue(b) ==
    LET failed == ~b.IsBound /\ IsError(b.getData.ret)
        l == IF b.IsBound \/ failed THEN b.Len ELSE b.getData.l
        b1 == [b EXCEPT !.pc = "done", !.Len = l]
    IN IF failed THEN [b1 EXCEPT !.res = "Error"]
       ELSE IF IsNull(l) THEN [b1 EXCEPT !.res = "nil", !.isNull = TRUE]
       ELSE IF ~b.col.IsVariableWidth /\ l # SQLLEN(b.col.Size, b.w)
       THEN [b1 EXCEPT !.res = "WrongLength"]
       ELSE IF ~LenWithin(l, Len(b.Buffer)) THEN [b1 EXCEPT !.res = "panic"]
       ELSE [b1 EXCEPT !.res = "Value",
                       !.value = BaseColumnValueOf(b.col.CType, SubSeq(b.Buffer, 1, l[1]))]

BVValue ==
    /\ bcol.pc = "call"
    /\ bcol' = BindableColumnValue(bcol)
    /\ UNCHANGED <<c, closingInBG, hs, nextH, hostpc, lastRet, stmts, rowsHeld, execs,
                   curExec, ctxDone, tasks, ex, varsOS, diag, cols, gd, par, opens, attrs>>

InitBV ==
    /\ DriverIdle
    /\ \E w \in LenWidths, col \in BindableColumns, bound \in BOOLEAN,
          pat \in BufferPatterns, ret \in {"ok", "err"} :
         \E cell \in LenCells(w, col) :
           /\ bound => ret = "ok"
           /\ bcol = BVCall(w, col, bound, cell, pat, ret)
    /\ diag = NoCallFn /\ cols = NoCallFn /\ gd = NoCallFn
    /\ par = NoCallFn /\ opens = NoCallFn /\ attrs = NoCallFn
    /\ tasks = NoCallFn /\ ex = NoCallFn

NextBV == BVValue

SpecBV == InitBV /\ [][NextBV]_vars

\* ------------------------------------------------------------------------
\* C21: what BindableColumn.Value returns (SpecBV)
\* ------------------------------------------------------------------------
\* Value has returned, and SQLGetData did not fail for a column left unbound
BVReturned == bcol.pc = "done" /\ (bcol.IsBound \/ ~IsError(bcol.getData.ret))

\* C21: BindableColumn.Value returns nil, nil whenever the length cell is
\* SQL_NULL_DATA; otherwise, for a fixed-width column whose length cell
\* differs from Size, an error and a nil value; otherwise it decodes
\* exactly the first Len bytes of the column buffer
C21_NullWrongLengthOrDecode ==
    BVReturned =>
      IF bcol.Len = SQLLEN(SQL_NULL_DATA, bcol.w)
      THEN bcol.res = "nil" /\ bcol.value = <<>>
      ELSE IF ~bcol.col.IsVariableWidth /\ bcol.Len # SQLLEN(bcol.col.Size, bcol.w)
      THEN bcol.res = "WrongLength" /\ bcol.value = <<>>
      ELSE /\ bcol.res = "Value"
           /\ bcol.value = BaseColumnValueOf(bcol.col.CType,
                                             SubSeq(bcol.Buffer, 1, bcol.Len[1]))

\* ------------------------------------------------------------------------
\* C22: the values BufferLen.IsNull takes for NULL (SpecBV)
\* ------------------------------------------------------------------------
\* C22: BufferLen.IsNull is true for -1 and, when the length field is 8
\* bytes wide, also for 0x00000000FFFFFFFF; it is false for 1, 0x7FFFFFFF
\* and 0x1FFFFFFFF
C22_IsNullValues ==
    BVReturned =>
      /\ (bcol.Len = SQLLEN(SQL_NULL_DATA, bcol.w) \/ (bcol.w = 8 /\ bcol.Len = Unextended32))
         => bcol.isNull
      /\ (bcol.Len \in {SQLLEN(1, bcol.w), Max32(bcol.w)} \/ (bcol.w = 8 /\ bcol.Len = Over32))
         => ~bcol.isNull

\* ------------------------------------------------------------------------
\* SpecBP: Parameter.BindValue (part_007 35-169) for one parameter slot
\* ------------------------------------------------------------------------
\* longest text, in characters, and longest byte string passed as a value
MaxTextLen == 4001
MaxBlobLen == 8001
\* the sizes from which BindValue takes the long types
LongTextSize == 4000
LongBinarySize == 8000

\* an int64 is kept as four 16-bit limbs, low limb first, in two's
\* complement
Int64(q, r) == <<r, q % Limb, IF q < 0 THEN Limb - 1 ELSE 0, IF q < 0 THEN Limb - 1 ELSE 0>>
SignedTop(x) == IF x[4] >= 32768 THEN x[4] - Limb ELSE x[4]
\* a < b for two int64
Int64Less(a, b) ==
    \/ SignedTop(a) < SignedTop(b)
    \/ /\ SignedTop(a) = SignedTop(b)
       /\ \/ a[3] < b[3]
          \/ a[3] = b[3] /\ (a[2] < b[2] \/ (a[2] = b[2] /\ a[1] < b[1]))
MinInt32 == Int64(-32768, 0)
MaxInt32 == Int64(32767, Limb - 1)

\* driver.Value: the shapes database/sql hands to a driver, and uint64 as
\* the shape it does not.  A string is kept as the number of its characters
\* that take one UTF-16 unit and of those that take a surrogate pair.
TextLens == 0..2 \cup (LongTextSize - 1)..MaxTextLen
BlobLens == 0..2 \cup (LongBinarySize - 1)..MaxBlobLen
Int64Values ==
    {Int64(q, r) : q \in {-32769, -32768, -1, 0, 32767, 32768}, r \in {0, 1, Limb - 2, Limb - 1}}
DriverValues ==
    {[kind |-> "nil"], [kind |-> "uint64"]}
    \cup {[kind |-> "string", bmp |-> n - 2 * a, astral |-> a] : n \in TextLens, a \in 0..1}
    \cup {[kind |-> "int64", d |-> d] : d \in Int64Values}
    \cup {[kind |-> "bool", d |-> b] : b \in BOOLEAN}
    \cup {[kind |-> "bytes", len |-> n] : n \in BlobLens}

\* len(api.StringToUTF16(d)): one unit per character below U+10000, two
\* for the others, and the terminating NUL
StringToUTF16Len(v) == v.bmp + 2 * v.astral + 1

\* the SQL types SQLDescribeParam reports for text and binary slots, after
\* ExtractParameters has rewritten the MAX types
DescribedTypes ==
    {"SQL_VARCHAR", "SQL_LONGVARCHAR", "SQL_WVARCHAR", "SQL_WLONGVARCHAR",
     "SQL_VARBINARY", "SQL_LONGVARBINARY", "SQL_INTEGER"}
Parameters ==
    {[isDescribed |-> FALSE, SQLType |-> "0"]}
    \cup {[isDescribed |-> TRUE, SQLType |-> t] : t \in DescribedTypes}

\* what BindValue hands to SQLBindParameter
BindArgs(ctype, sqltype, size, buflen) ==
    [out |-> "bind", ctype |-> ctype, sqltype |-> sqltype, size |-> size,
     buflen |-> buflen]
\* BindValue left the switch without arguments for SQLBindParameter
NoBind(out) == [out |-> out]

\* the switch with the described type taken before the size of the text
BindSwitch_DescribedFirst(p, v, isMSAccessDriver) ==
    IF v.kind = "nil" THEN BindArgs("SQL_C_WCHAR", "SQL_WCHAR", 1, 0)
    ELSE IF v.kind = "string"
    THEN LET l == StringToUTF16Len(v) - 1
             size == IF l < 1 THEN 1 ELSE l
         IN BindArgs("SQL_C_WCHAR",
                     IF isMSAccessDriver THEN "SQL_WLONGVARCHAR"
                     ELSE IF p.isDescribed THEN p.SQLType
                     ELSE IF size >= LongTextSize THEN "SQL_WLONGVARCHAR"
                     ELSE IF size <= 1 THEN "SQL_WVARCHAR"
                     ELSE "SQL_WCHAR",
                     size, l * 2)
    ELSE IF v.kind = "int64"
    THEN IF Int64Less(MinInt32, v.d) /\ Int64Less(v.d, MaxInt32)
         THEN BindArgs("SQL_C_LONG", "SQL_INTEGER", 4, 0)
         ELSE BindArgs("SQL_C_SBIGINT", "SQL_BIGINT", 8, 0)
    ELSE IF v.kind = "bool" THEN BindArgs("SQL_C_BIT", "SQL_BIT", 1, 0)
    ELSE IF v.kind = "bytes"
    THEN IF v.len = 0 THEN NoBind("panic")
         ELSE BindArgs("SQL_C_BINARY",
                       IF p.isDescribed THEN p.SQLType
                       ELSE IF v.len <= 0 THEN "SQL_LONGVARBINARY"
                       ELSE IF v.len >= LongBinarySize THEN "SQL_LONGVARBINARY"
                       ELSE "SQL_BINARY",
                       v.len, v.len)
    ELSE NoBind("unsupported")

\* the switch of BindValue on the value's type: the arguments of
\* SQLBindParameter, "unsupported" on the default arm, "panic" where the
\* address of b[0] is taken of an empty slice
BindSwitch(p, v, isMSAccessDriver) ==
    IF v.kind = "nil" THEN BindArgs("SQL_C_WCHAR", "SQL_WCHAR", 1, 0)
    ELSE IF v.kind = "string"
    THEN LET l == StringToUTF16Len(v) - 1
             size == IF l < 1 THEN 1 ELSE l
         IN BindArgs("SQL_C_WCHAR",
                     IF isMSAccessDriver THEN "SQL_WLONGVARCHAR"
                     ELSE IF size >= LongTextSize THEN "SQL_WLONGVARCHAR"
                     ELSE IF p.isDescribed THEN p.SQLType
                     ELSE IF size <= 1 THEN "SQL_WVARCHAR"
                     ELSE "SQL_WCHAR",
                     size, l * 2)
    ELSE IF v.kind = "int64"
    THEN IF Int64Less(MinInt32, v.d) /\ Int64Less(v.d, MaxInt32)
         THEN BindArgs("SQL_C_LONG", "SQL_INTEGER", 4, 0)
         ELSE BindArgs("SQL_C_SBIGINT", "SQL_BIGINT", 8, 0)
    ELSE IF v.kind = "bool" THEN BindArgs("SQL_C_BIT", "SQL_BIT", 1, 0)
    ELSE IF v.kind = "bytes"
    THEN IF v.len = 0 THEN NoBind("panic")
         ELSE BindArgs("SQL_C_BINARY",
                       IF p.isDescribed THEN p.SQLType
                       ELSE IF v.len <= 0 THEN "SQL_LONGVARBINARY"
                       ELSE IF v.len >= LongBinarySize THEN "SQL_LONGVARBINARY"
                       ELSE "SQL_BINARY",
                       v.len, v.len)
    ELSE NoBind("unsupported")

\* BindValue entered for parameter p with value v
BindValueCall(p, v, access, ret) ==
    [pc |-> "call", p |-> p, v |-> v, isMSAccessDriver |-> access, ret |-> ret,
     bound |-> NoBind("none"), res |-> "none"]

\* BindValue: the switch, then SQLBindParameter and NewError if it failed
BindValue(b) ==
    LET a == BindSwitch(b.p, b.v, b.isMSAccessDriver)
    IN IF a.out = "panic" THEN [b EXCEPT !.pc = "done", !.res = "panic"]
       ELSE IF a.out = "unsupported" THEN [b EXCEPT !.pc = "done", !.res = "Unsupported"]
       ELSE [b EXCEPT !.pc = "done", !.bound = a,
                      !.res = IF IsError(b.ret) THEN "Error" ELSE "nil"]

BPBindValue ==
    /\ par.pc = "call"
    /\ par' = BindValue(par)
    /\ UNCHANGED <<c, closingInBG, hs, nextH, hostpc, lastRet, stmts, rowsHeld, execs,
                   curExec, ctxDone, tasks, ex, varsOS, diag, cols, gd, bcol, opens, attrs>>

InitBP ==
    /\ DriverIdle
    /\ \E p \in Parameters, v \in DriverValues, access \in BOOLEAN, ret \in {"ok", "err"} :
         /\ (v.kind = "string" => v.bmp >= 0)
         /\ par = BindValueCall(p, v, access, ret)
    /\ diag = NoCallFn /\ cols = NoCallFn /\ gd = NoCallFn
    /\ bcol = NoCallFn /\ opens = NoCallFn /\ attrs = NoCallFn
    /\ tasks = NoCallFn /\ ex = NoCallFn

NextBP == BPBindValue

SpecBP == InitBP /\ [][NextBP]_vars

\* ------------------------------------------------------------------------
\* C23: how BindValue binds an int64 (SpecBP)
\* ------------------------------------------------------------------------
\* v fits in a signed 32-bit integer: -2^31 <= v <= 2^31-1
FitsInt32(d) == ~Int64Less(d, MinInt32) /\ ~Int64Less(MaxInt32, d)

\* C23: BindValue binds an int64 v as SQL_C_LONG / SQL_INTEGER of 4 bytes
\* if and only if -2^31 <= v <= 2^31-1, both bounds included, and as
\* SQL_C_SBIGINT / SQL_BIGINT of 8 bytes otherwise
C23_Int32Narrowing ==
    (par.pc = "done" /\ par.v.kind = "int64")
    => par.bound = IF FitsInt32(par.v.d)
                   THEN BindArgs("SQL_C_LONG", "SQL_INTEGER", 4, 0)
                   ELSE BindArgs("SQL_C_SBIGINT", "SQL_BIGINT", 8, 0)

\* ------------------------------------------------------------------------
\* C24: the SQL type of a text parameter (SpecBP)
\* ------------------------------------------------------------------------
\* BindValue has bound a string; size is the column size it passed
TextBound == par.pc = "done" /\ par.v.kind = "string" /\ par.bound.out = "bind"

\* C24 as stated: on a non-Access connection the SQL type is the described
\* type whenever the slot was described, whatever the text length; for an
\* un-described slot WVARCHAR when size <= 1, WLONGVARCHAR when size >=
\* 4000 and WCHAR otherwise; on Microsoft Access always WLONGVARCHAR
C24_DescribedTypeWins ==
    TextBound =>
      par.bound.sqltype =
        IF par.isMSAccessDriver THEN "SQL_WLONGVARCHAR"
        ELSE IF par.p.isDescribed THEN par.p.SQLType
        ELSE IF par.bound.size <= 1 THEN "SQL_WVARCHAR"
        ELSE IF par.bound.size >= LongTextSize THEN "SQL_WLONGVARCHAR"
        ELSE "SQL_WCHAR"

\* C24: on a non-Access connection the SQL type of a text parameter is
\* WLONGVARCHAR when size >= 4000, described or not; below that it is the
\* described type for a described slot, else WVARCHAR when size <= 1 and
\* WCHAR otherwise; on Microsoft Access it is always WLONGVARCHAR.  The
\* size is the number of UTF-16 units of the text, at least 1.
C24_TextSqlType ==
    TextBound =>
      /\ par.bound.size = IF par.v.bmp + 2 * par.v.astral < 1 THEN 1
                          ELSE par.v.bmp + 2 * par.v.astral
      /\ par.bound.sqltype =
           IF par.isMSAccessDriver THEN "SQL_WLONGVARCHAR"
           ELSE IF par.bound.size >= LongTextSize THEN "SQL_WLONGVARCHAR"
           ELSE IF par.p.isDescribed THEN par.p.SQLType
           ELSE IF par.bound.size <= 1 THEN "SQL_WVARCHAR"
           ELSE "SQL_WCHAR"

\* a text of 4000 units was bound as WLONGVARCHAR on a slot described as
\* VARCHAR, on a connection that is not Microsoft Access
C24_Witness ==
    /\ TextBound
    /\ par.res = "nil"
    /\ ~par.isMSAccessDriver
    /\ par.p.isDescribed /\ par.p.SQLType = "SQL_VARCHAR"
    /\ par.bound.size = LongTextSize
    /\ par.bound.sqltype = "SQL_WLONGVARCHAR"

\* ------------------------------------------------------------------------
\* C25: binding a byte string (SpecBP)
\* ------------------------------------------------------------------------
\* C25: for a byte-string parameter BindValue succeeds for every length
\* including 0, and the SQL type is the described type if the slot is
\* described, otherwise LONGVARBINARY when the length is 0 or >= 8000 and
\* BINARY for lengths 1..7999
C25_ByteStringBinds ==
    (par.pc = "done" /\ par.v.kind = "bytes" /\ ~IsError(par.ret))
    => /\ par.res = "nil"
       /\ par.bound.out = "bind"
       /\ par.bound.sqltype =
            IF par.p.isDescribed THEN par.p.SQLType
            ELSE IF par.v.len = 0 \/ par.v.len >= LongBinarySize THEN "SQL_LONGVARBINARY"
            ELSE "SQL_BINARY"

\* ------------------------------------------------------------------------
\* SpecTX: Conn.BeginTx (part_012) and Tx.Commit / Tx.Rollback (tx.go) on
\* one open connection, with the attributes SQLSetConnectAttr sets on it
\* ------------------------------------------------------------------------
\* a connection handle as SQLDriverConnect leaves it
DefaultAttrs == [autocommit |-> "ON", access |-> "READ_WRITE", isolation |-> "default"]

\* the SQLSetConnectUIntPtrAttr calls of BeginTx that succeeded before the
\* step named by fail: SQL_ATTR_AUTOCOMMIT, then SQL_ATTR_TXN_ISOLATION for
\* a mapped level, then SQL_ATTR_ACCESS_MODE for a read-only transaction
BeginTxAttrs(a, conn, opts, fail) ==
    IF conn.bad \/ fail = "hook" \/ conn.tx.active \/ fail = "autocommit" THEN a
    ELSE LET a1 == [a EXCEPT !.autocommit = "OFF"]
             a2 == IF opts.iso /\ fail # "isolation" THEN [a1 EXCEPT !.isolation = "set"] ELSE a1
         IN IF opts.ro /\ fail = "none" THEN [a2 EXCEPT !.access = "READ_ONLY"] ELSE a2

\* the one attribute endTx sets: setAutoCommitAttr(SQL_AUTOCOMMIT_ON) after
\* SQLEndTran succeeded
endTxAttrs(a, conn, retEnd, retAuto) ==
    IF conn.tx.active /\ ~IsError(retEnd) /\ retAuto = "ok"
    THEN [a EXCEPT !.autocommit = "ON"]
    ELSE a

TXBeginTx ==
    /\ \E iso \in BOOLEAN, ro \in BOOLEAN :
         \E fail \in BeginStages([iso |-> iso, ro |-> ro]) :
         \E code \in CodeIf(fail \notin {"none", "hook"}) :
           LET r == BeginTx(c, [iso |-> iso, ro |-> ro], fail, code)
           IN /\ c' = r.c
              /\ attrs' = BeginTxAttrs(attrs, c, [iso |-> iso, ro |-> ro], fail)
              /\ lastRet' = RetF("Begin", r.err, c.bad, r.calls, fail)
              /\ txHeld' = (txHeld \/ r.err = "nil")
    /\ UNCHANGED <<closingInBG, hs, nextH, hostpc, stmts, rowsHeld, execs, curExec,
                   ctxDone, tasks, ex, odbc, errSeen, diag, cols, gd, bcol, par, opens>>

\* Tx.Commit / Tx.Rollback on the Tx database/sql holds
TXEnd(op) ==
    /\ txHeld
    /\ \E retEnd \in RetIf(c.tx.active, hs, c.h) :
       \E retAuto \in AutoIf(c.tx.active /\ retEnd = "ok", hs, c.h) :
         LET r == endTx(c, retEnd, retAuto)
         IN /\ c' = r.c
            /\ attrs' = endTxAttrs(attrs, c, retEnd, retAuto)
            /\ lastRet' = RetF(op, r.err, c.bad, r.calls, r.failed)
    /\ txHeld' = FALSE
    /\ UNCHANGED <<closingInBG, hs, nextH, hostpc, stmts, rowsHeld, execs, curExec,
                   ctxDone, tasks, ex, odbc, errSeen, diag, cols, gd, bcol, par, opens>>

TXCommit == TXEnd("Commit")
TXRollback == TXEnd("Rollback")

InitTX ==
    /\ DriverIdle
    /\ attrs = DefaultAttrs
    /\ diag = NoCallFn /\ cols = NoCallFn /\ gd = NoCallFn
    /\ bcol = NoCallFn /\ par = NoCallFn /\ opens = NoCallFn
    /\ tasks = NoCallFn /\ ex = NoCallFn

NextTX == TXBeginTx \/ TXCommit \/ TXRollback

SpecTX == InitTX /\ [][NextTX]_vars

\* ------------------------------------------------------------------------
\* C26: the connection after a transaction has ended (SpecTX)
\* ------------------------------------------------------------------------
\* C26: after a successful Commit or Rollback the connection has no active
\* transaction, autocommit is ON again, and if the transaction was begun
\* read-only the access mode is back to read-write
C26_EndRestoresDefaults ==
    [][((TXCommit \/ TXRollback) /\ lastRet'.res = "nil")
       => /\ ~c'.tx.active
          /\ attrs'.autocommit = "ON"
          /\ (c.tx.ro => attrs'.access = "READ_WRITE")]_vars

\* ------------------------------------------------------------------------
\* C27: Begin while a transaction is recorded (SpecOS)
\* ------------------------------------------------------------------------
\* C27 as stated: Begin on a connection that already has an active
\* transaction returns the "already in a transaction" error, makes no ODBC
\* call, and leaves the recorded transaction and the bad flag unchanged
C27_BeginInTxRefused ==
    [][(OSBegin /\ c.tx.active)
       => /\ lastRet'.res = "Error"
          /\ lastRet'.calls = {}
          /\ c' = c]_vars

\* C27: Begin on a connection that already has an active transaction makes
\* no ODBC call and leaves the recorded transaction, the handles and the
\* bad flag unchanged; it returns the "already in a transaction" error when
\* the connection is not marked bad and BadConnection when it is
C27_BeginInTxNoCall ==
    [][(OSBegin /\ c.tx.active)
       => /\ lastRet'.op = "Begin"
          /\ lastRet'.res = IF c.bad THEN "ErrBadConn" ELSE "Error"
          /\ lastRet'.calls = {}
          /\ c' = c
          /\ hs' = hs]_vars

\* Begin has just been refused on a connection that is not bad and whose
\* transaction is still recorded
C27_Witness ==
    /\ lastRet.op = "Begin" /\ lastRet.res = "Error" /\ lastRet.calls = {}
    /\ ~lastRet.badAtCall /\ ~c.bad
    /\ c.tx.active /\ txHeld

\* ------------------------------------------------------------------------
\* C28: what Conn.Ping returns (SpecBG)
\* ------------------------------------------------------------------------
\* Ping returns from its first part: the connection is bad or the prepare
\* of ";" failed; a bad connection makes no ODBC call.  Ping that goes on to
\* execute has prepared a statement on a connection that is not bad.
C28_PrepareStep ==
    /\ (HostPingStart /\ hostpc' = "idle")
       => lastRet'.op = "Ping" /\ lastRet'.res = "ErrBadConn"
    /\ (HostPingStart /\ c.bad) => hostpc' = "idle" /\ hs' = hs /\ nextH' = nextH
    /\ (HostPingStart /\ hostpc' = "wait")
       => /\ ~c.bad
          /\ execs'[curExec'].kind = "ping"
          /\ stmts'[execs'[curExec'].s].h \in hs'.alloc \ hs.alloc

\* Ping returns from ExecContext: nil or ErrBadConn, and nil only when the
\* worker has delivered a successful SQLExecute
C28_ExecuteStep ==
    ((HostExecRecv \/ HostExecCancelled) /\ execs[curExec].kind = "ping")
    => /\ lastRet'.op = "Ping"
       /\ lastRet'.res \in {"nil", "ErrBadConn"}
       /\ lastRet'.res = "nil"
          => /\ execs[curExec].wpc = "send"
             /\ execs[curExec].err = "nil"
             /\ ~execs[curExec].badAtCall

\* C28: Ping returns nil only if preparing and executing the statement ";"
\* both succeed; any failure of either step, or a connection already
\* marked bad, yields BadConnection
C28_PingNilOrBadConn == [][C28_PrepareStep /\ C28_ExecuteStep]_vars

\* Ping has returned nil on a connection that was not bad, and the
\* statement it prepared is freed again
C28_Witness ==
    /\ lastRet.op = "Ping" /\ lastRet.res = "nil" /\ ~lastRet.badAtCall
    /\ hostpc = "idle"
    /\ \E i \in 1..MaxExec : /\ execs[i].used /\ execs[i].kind = "ping"
                             /\ execs[i].res = "nil"
                             /\ stmts[execs[i].s].h = NULL
    /\ hs.StmtCount = 0

\* ------------------------------------------------------------------------
\* SpecOP: Driver.Open (conn.go 26-49) called by several goroutines on the
\* one driver that init (driver.go 97-103) has registered
\* ------------------------------------------------------------------------
\* goroutines that call Open
MaxOpeners == 2

\* initDriver: the step that failed, if any; init keeps the error in
\* drv.initErr, which is named here after the step and is "nil" when
\* initDriver succeeded
InitStages == {"nil", "alloc", "version"}

NewOpen == [pc |-> "start", h |-> NULL, res |-> "none"]

\* Open that does not look at d.initErr
OpenAlloc_IgnoresInitErr(o, h, p, ret) ==
    IF IsError(ret)
    THEN [opens |-> [o EXCEPT !.calls[p] = [pc |-> "done", h |-> NULL, res |-> NewError(ret)]],
          hs |-> h, nextH |-> nextH]
    ELSE [opens |-> [o EXCEPT !.calls[p] = [pc |-> "connect", h |-> nextH, res |-> "none"]],
          hs |-> AllocHandle(h, SQL_HANDLE_DBC), nextH |-> nextH + 1]

\* Open up to the call of SQLDriverConnect: the initialisation error if
\* there is one, else SQLAllocHandle (ret) and the handle count
OpenAlloc(o, h, p, ret) ==
    IF o.initErr # "nil"
    THEN [opens |-> [o EXCEPT !.calls[p] = [pc |-> "done", h |-> NULL, res |-> o.initErr]],
          hs |-> h, nextH |-> nextH]
    ELSE IF IsError(ret)
    THEN [opens |-> [o EXCEPT !.calls[p] = [pc |-> "done", h |-> NULL, res |-> NewError(ret)]],
          hs |-> h, nextH |-> nextH]
    ELSE [opens |-> [o EXCEPT !.calls[p] = [pc |-> "connect", h |-> nextH, res |-> "none"]],
          hs |-> AllocHandle(h, SQL_HANDLE_DBC), nextH |-> nextH + 1]

\* SQLDriverConnect returns (ret): the handle is released and the error
\* returned, or the Conn is returned
OpenConnect(o, h, p, ret, fr) ==
    IF IsError(ret)
    THEN [opens |-> [o EXCEPT !.calls[p] = [pc |-> "done", h |-> NULL, res |-> NewError(ret)]],
          hs |-> releaseHandle(h, o.calls[p].h, SQL_HANDLE_DBC, fr).hs]
    ELSE [opens |-> [o EXCEPT !.calls[p].pc = "done", !.calls[p].res = "Conn"],
          hs |-> h]

OPAlloc(p) ==
    /\ opens.calls[p].pc = "start"
    /\ \E ret \in (IF opens.initErr = "nil" THEN RetCodes ELSE {"ok"}) :
         LET r == OpenAlloc(opens, hs, p, ret)
         IN /\ opens' = r.opens
            /\ hs' = r.hs
            /\ nextH' = r.nextH
    /\ UNCHANGED <<c, closingInBG, hostpc, lastRet, stmts, rowsHeld, execs, curExec,
                   ctxDone, tasks, ex, varsOS, diag, cols, gd, bcol, par, attrs>>

OPConnect(p) ==
    /\ opens.calls[p].pc = "connect"
    /\ \E ret \in RetCodes :
       \E fr \in FreeIf(IsError(ret)) :
         LET r == OpenConnect(opens, hs, p, ret, fr)
         IN /\ opens' = r.opens
            /\ hs' = r.hs
    /\ UNCHANGED <<c, closingInBG, nextH, hostpc, lastRet, stmts, rowsHeld, execs, curExec,
                   ctxDone, tasks, ex, varsOS, diag, cols, gd, bcol, par, attrs>>

\* no connection has been opened; init has run and has or has not failed
InitOP ==
    /\ c = [h |-> NULL, tx |-> NoTx, bad |-> FALSE]
    /\ closingInBG = FALSE
    /\ hs = [alloc |-> {}, freeLog |-> <<>>, StmtCount |-> 0, ConnCount |-> 0]
    /\ nextH = ConnHandle
    /\ hostpc = "new"
    /\ lastRet = Ret("none", "nil", FALSE, {})
    /\ stmts = [s \in 1..MaxStmt |-> EmptyStmtST]
    /\ rowsHeld = {}
    /\ execs = [e \in 1..MaxExec |-> NoCall]
    /\ curExec = 1
    /\ ctxDone = FALSE
    /\ odbc = [o \in 1..MaxHandle |-> EmptyODBCStmt]
    /\ txHeld = FALSE
    /\ errSeen = FALSE
    /\ \E stage \in InitStages :
         opens = [initErr |-> stage, calls |-> [p \in 1..MaxOpeners |-> NewOpen]]
    /\ diag = NoCallFn /\ cols = NoCallFn /\ gd = NoCallFn
    /\ bcol = NoCallFn /\ par = NoCallFn /\ attrs = NoCallFn
    /\ tasks = NoCallFn /\ ex = NoCallFn

NextOP == \E p \in 1..MaxOpeners : OPAlloc(p) \/ OPConnect(p)

SpecOP == InitOP /\ [][NextOP]_vars

\* ------------------------------------------------------------------------
\* C29: Open after a failed initialisation (SpecOP)
\* ------------------------------------------------------------------------
\* C29: if driver initialisation failed, every Open call returns that same
\* initialisation error, allocates no connection handle and leaves
\* ConnCount unchanged
C29_InitErrFromEveryOpen ==
    opens.initErr # "nil"
    => /\ \A p \in 1..MaxOpeners :
            /\ opens.calls[p].pc \in {"start", "done"}
            /\ opens.calls[p].pc = "done" => opens.calls[p].res = opens.initErr
       /\ hs.alloc = {}
       /\ hs.ConnCount = 0
       /\ nextH = ConnHandle

\* initialisation failed and every goroutine has got the error from Open
C29_Witness ==
    /\ opens.initErr = "version"
    /\ \A p \in 1..MaxOpeners : opens.calls[p].pc = "done" /\ opens.calls[p].res = "version"
    /\ hs.ConnCount = 0

\* ------------------------------------------------------------------------
\* C30: concurrent calls of Open (SpecOP)
\* ------------------------------------------------------------------------
\* the calls that have allocated their connection handle and from which
\* SQLDriverConnect has not returned
Connecting == {p \in 1..MaxOpeners : opens.calls[p].pc = "connect"}

\* C30: Open calls are serialised by a process-wide mutex: for any two
\* concurrent Open calls, at no time are both between allocating their
\* connection handle and the return of SQLDriverConnect
C30_OpenSerialised == Cardinality(Connecting) <= 1

\* ------------------------------------------------------------------------
\* SpecSC: drv.Stats under goroutines that each prepare, execute and close
\* their own statement (part_001, part_016 31-56, handle.go 34-47)
\* ------------------------------------------------------------------------
\* goroutines running the prepare / execute / close cycle
MaxTasks == 2
\* executions each goroutine makes of its statement
MaxInserts == 2

\* the two generations of Stats: counters under Stats.mu (part_001 13-33)
\* and go.uber.org/atomic counters (part_001 48-66)
StatsGenerations == {"mutex", "atomic"}

NewTask == [pc |-> "start", held |-> FALSE, change |-> 0, reg |-> 0, next |-> "none",
            n |-> 0, err |-> FALSE]

\* s.mu.Lock() that lets every caller through
CanLock_NoMutex(s) == TRUE

\* s.mu.Lock() returns only while no other goroutine holds Stats.mu
CanLock(s) == s.mu = 0

\* the goroutine goes on to updateHandleCount(SQL_HANDLE_STMT, change) and
\* then to `next`
ToCount(t, change, next) == [t EXCEPT !.pc = "count", !.change = change, !.next = next]

\* PrepareODBCStmt up to the counter: SQLAllocHandle
TaskAlloc(t, ret) ==
    IF IsError(ret) THEN [t EXCEPT !.pc = "done", !.err = TRUE]
    ELSE ToCount([t EXCEPT !.held = TRUE], 1, "prepare")

\* PrepareODBCStmt after the counter: SQLPrepare, and the deferred
\* releaseHandle when it failed
TaskPrepare(t, ret) ==
    IF IsError(ret) THEN [t EXCEPT !.pc = "free", !.err = TRUE]
    ELSE [t EXCEPT !.pc = "exec"]

\* releaseHandle: SQLFreeHandle, and the counter only when the free worked
TaskFree(t, fr) ==
    IF IsError(fr) THEN [t EXCEPT !.pc = "done", !.err = TRUE]
    ELSE ToCount([t EXCEPT !.held = FALSE], -1, "done")

\* nothing but the goroutines and drv.Stats moves
OnlyTasks ==
    UNCHANGED <<c, closingInBG, hs, nextH, hostpc, lastRet, stmts, rowsHeld, execs,
                curExec, ctxDone, varsOS, diag, cols, gd, bcol, par, opens, attrs, ex>>

SCAlloc(i) ==
    /\ tasks.t[i].pc = "start"
    /\ \E ret \in {"ok", "err"} :
         tasks' = [tasks EXCEPT !.t[i] = TaskAlloc(@, ret)]
    /\ OnlyTasks

\* updateHandleCount of the mutex generation: Lock
SCLock(i) ==
    /\ tasks.gen = "mutex"
    /\ tasks.t[i].pc = "count"
    /\ CanLock(tasks)
    /\ tasks' = [tasks EXCEPT !.mu = i, !.t[i].pc = "load"]
    /\ OnlyTasks

\* s.StmtCount += change reads the counter ...
SCLoad(i) ==
    /\ tasks.t[i].pc = "load"
    /\ tasks' = [tasks EXCEPT !.t[i].reg = tasks.StmtCount, !.t[i].pc = "store"]
    /\ OnlyTasks

\* ... and writes it; the deferred Unlock runs
SCStore(i) ==
    /\ tasks.t[i].pc = "store"
    /\ LET v == tasks.t[i].reg + tasks.t[i].change
       IN tasks' = [tasks EXCEPT !.StmtCount = v,
                                 !.peak = IF v > @ THEN v ELSE @,
                                 !.mu = 0,
                                 !.t[i].pc = tasks.t[i].next]
    /\ OnlyTasks

\* updateHandleCount of the atomic generation: s.StmtCount.Add(change)
SCAdd(i) ==
    /\ tasks.gen = "atomic"
    /\ tasks.t[i].pc = "count"
    /\ LET v == tasks.StmtCount + tasks.t[i].change
       IN tasks' = [tasks EXCEPT !.StmtCount = v,
                                 !.peak = IF v > @ THEN v ELSE @,
                                 !.t[i].pc = tasks.t[i].next]
    /\ OnlyTasks

SCPrepare(i) ==
    /\ tasks.t[i].pc = "prepare"
    /\ \E ret \in {"ok", "err"} :
         tasks' = [tasks EXCEPT !.t[i] = TaskPrepare(@, ret)]
    /\ OnlyTasks

\* Stmt.Exec on a statement without open Rows: no handle is allocated or
\* freed
SCExec(i) ==
    /\ tasks.t[i].pc = "exec"
    /\ tasks.t[i].n < MaxInserts
    /\ tasks' = [tasks EXCEPT !.t[i].n = @ + 1]
    /\ OnlyTasks

\* Stmt.Close -> closeByStmt -> releaseHandle
SCClose(i) ==
    /\ tasks.t[i].pc = "exec"
    /\ tasks' = [tasks EXCEPT !.t[i].pc = "free"]
    /\ OnlyTasks

SCFree(i) ==
    /\ tasks.t[i].pc = "free"
    /\ \E fr \in {"ok", "err"} :
         tasks' = [tasks EXCEPT !.t[i] = TaskFree(@, fr)]
    /\ OnlyTasks

\* the counter starts at the number of statements already open
InitSC ==
    /\ DriverIdle
    /\ \E gen \in StatsGenerations, start \in 0..1 :
         tasks = [gen |-> gen, start |-> start, StmtCount |-> start, peak |-> start,
                  mu |-> 0, t |-> [i \in 1..MaxTasks |-> NewTask]]
    /\ diag = NoCallFn /\ cols = NoCallFn /\ gd = NoCallFn
    /\ bcol = NoCallFn /\ par = NoCallFn /\ opens = NoCallFn /\ attrs = NoCallFn
    /\ ex = NoCallFn

NextSC ==
    \E i \in 1..MaxTasks :
      \/ SCAlloc(i)
      \/ SCLock(i)
      \/ SCLoad(i)
      \/ SCStore(i)
      \/ SCAdd(i)
      \/ SCPrepare(i)
      \/ SCExec(i)
      \/ SCClose(i)
      \/ SCFree(i)

SpecSC == InitSC /\ [][NextSC]_vars

\* ------------------------------------------------------------------------
\* C31: no update of StmtCount is lost (SpecSC)
\* ------------------------------------------------------------------------
AllTasksDone == \A i \in 1..MaxTasks : tasks.t[i].pc = "done"
HeldTasks == {i \in 1..MaxTasks : tasks.t[i].held}

\* C31: for every interleaving of the goroutines' prepare / execute / close
\* cycles, once all of them have finished StmtCount is its starting value
\* plus one for each statement handle whose SQLFreeHandle failed; when
\* every task closed its statement it is the starting value again.
C31_NoLostUpdate ==
    AllTasksDone => tasks.StmtCount = tasks.start + Cardinality(HeldTasks)

\* both goroutines held their statement at the same time under the mutex
\* generation, executed it MaxInserts times and closed it
C31_Witness ==
    /\ AllTasksDone
    /\ tasks.gen = "mutex"
    /\ HeldTasks = {}
    /\ \A i \in 1..MaxTasks : tasks.t[i].n = MaxInserts /\ ~tasks.t[i].err
    /\ tasks.peak = tasks.start + MaxTasks
    /\ tasks.StmtCount = tasks.start

\* ------------------------------------------------------------------------
\* C32: Conn.QueryContext with a context that is already done (SpecOS)
\* ------------------------------------------------------------------------
\* C32: a Conn.QueryContext that finds its context done after
\* PrepareODBCStmt returns the context's error without starting the query
\* goroutine and without SQLExecute; its deferred closeByStmt calls
\* SQLFreeHandle once on the handle just prepared, and StmtCount is what
\* it was before the call whenever that free succeeded.  The query
\* goroutine is started only with a context that was not done.
C32_ExpiredContext ==
    [][/\ (OSQueryContext /\ hostpc' = "idle" /\ lastRet'.res = "ctxErr")
          => /\ lastRet'.op = "QueryContext"
             /\ execs' = execs
             /\ "SQLExecute" \notin lastRet'.calls
             /\ hs'.freeLog = Append(hs.freeLog, nextH)
             /\ odbc'[NewStmt] = [h |-> NULL, usedByStmt |-> FALSE, usedByRows |-> FALSE]
             /\ rowsHeld' = rowsHeld
             /\ hs'.StmtCount = hs.StmtCount + (IF nextH \in hs'.alloc THEN 1 ELSE 0)
       /\ (OSQueryContext /\ execs' # execs) => ~ctxDone'
      ]_vars

\* QueryContext has just returned the context's error from its early test:
\* the handle it prepared is freed, no statement is counted and no query
\* goroutine was ever started
C32_Witness ==
    /\ lastRet.op = "QueryContext"
    /\ lastRet.res = "ctxErr"
    /\ lastRet.calls = {"SQLAllocHandle", "SQLFreeHandle"}
    /\ hs.StmtCount = 0
    /\ hs.freeLog = <<ConnHandle + 1>>
    /\ hs.alloc = {ConnHandle}
    /\ \A e \in 1..MaxExec : ~execs[e].used

\* ------------------------------------------------------------------------
\* C33: a failed Open or Prepare gives its handle back (SpecOS)
\* ------------------------------------------------------------------------
\* the handle SQLAllocHandle returned in this step is freed once; the
\* counter of its type is what it was when that free succeeded
C33_GaveBack(ht) ==
    /\ hs'.freeLog = Append(hs.freeLog, nextH)
    /\ hs'.alloc \ {nextH} = hs.alloc
    /\ hs' = updateHandleCount([hs EXCEPT !.alloc = hs'.alloc, !.freeLog = hs'.freeLog],
                               ht, IF nextH \in hs'.alloc THEN 1 ELSE 0)

\* Driver.Open allocated a connection handle and returned no connection
C33_OpenStep ==
    (OSOpen /\ nextH' # nextH /\ c'.h = NULL)
    => /\ C33_GaveBack(SQL_HANDLE_DBC)
       /\ lastRet'.res \in {"Error", "ErrBadConn"}
       /\ "SQLDriverConnect" \in lastRet'.calls

\* Conn.Prepare allocated a statement handle and returned no statement
C33_PrepareStep ==
    (OSPrepare /\ nextH' # nextH /\ odbc' = odbc)
    => /\ C33_GaveBack(SQL_HANDLE_STMT)
       /\ lastRet'.res \in {"Error", "ErrBadConn"}
       /\ stmts' = stmts

\* Open or Prepare failed before it held a handle: nothing to give back
C33_AllocStep ==
    ((OSOpen \/ OSPrepare) /\ nextH' = nextH) => hs' = hs /\ lastRet'.res # "nil"

\* C33: an Open that fails in SQLDriverConnect and a Prepare that fails in
\* SQLPrepare or in ExtractParameters call SQLFreeHandle exactly once on
\* the handle they allocated and return the error; ConnCount and StmtCount
\* are what they were before the call whenever that SQLFreeHandle
\* succeeded, and a call that fails before it holds a handle changes
\* nothing.
C33_FailedAcquisition ==
    [][C33_OpenStep /\ C33_PrepareStep /\ C33_AllocStep]_vars

\* a Prepare has just failed after SQLAllocHandle: its handle is freed and
\* the counters are those of the open connection alone
C33_Witness ==
    /\ lastRet.op = "Prepare"
    /\ lastRet.res = "Error"
    /\ hs.freeLog = <<ConnHandle + 1>>
    /\ hs.alloc = {ConnHandle}
    /\ hs.StmtCount = 0
    /\ hs.ConnCount = 1
    /\ nextH = ConnHandle + 2

\* ------------------------------------------------------------------------
\* SpecEX: one Stmt.Exec / Stmt.Query call on a statement without open
\* Rows (stmt.go 56-116, 156-182): the argument check, the bind loop,
\* SQLExecute and the result-set walk
\* ------------------------------------------------------------------------
\* arguments passed to the call, and parameters of the statement
MaxArgs == 2
\* result sets the statement produces
MaxResults == 2
\* turns of the SQLRowCount / SQLMoreResults loop that are followed
MaxWalk == 3

\* the values passed as arguments: one that binds, one of a type BindValue
\* does not know, and the empty byte string
ArgValues == {[kind |-> "nil"], [kind |-> "uint64"], [kind |-> "bytes", len |-> 0]}
\* the row counts a result set reports: -1 when the count is not available
RowCounts == {-1, 0, 3}
SeqsUpTo(S, lo, hi) == UNION {[1..n -> S] : n \in lo..hi}

\* a parameter ExtractParameters left undescribed
UndescribedParam == [isDescribed |-> FALSE, SQLType |-> "0"]

ExecCall(kind, nparams, args, results) ==
    [pc |-> "start", kind |-> kind, nparams |-> nparams, args |-> args,
     results |-> results, i |-> 1, pos |-> 1, sumRowCount |-> 0, calls |-> <<>>,
     counts |-> <<>>, res |-> "none", rowCount |-> 0, usedByRows |-> FALSE]

OdbcCall(fn, ret) == [fn |-> fn, ret |-> ret]
Returned(e, res) == [e EXCEPT !.pc = "done", !.res = res]

\* len(args) != len(s.parameters)
ArgsMatch(nargs, nparams) == nargs = nparams

\* Stmt.exec, the test of the number of arguments
execArgs(e) ==
    IF ~ArgsMatch(Len(e.args), e.nparams) THEN Returned(e, "Error")
    ELSE [e EXCEPT !.pc = IF Len(e.args) = 0 THEN "execute" ELSE "bind"]

\* Stmt.exec, one turn of the loop over the arguments: BindValue of
\* parameter i with the argument's value
execBind(e, ret) ==
    LET b == BindValue(BindValueCall(UndescribedParam, e.args[e.i], FALSE, ret))
        called == [e EXCEPT !.calls = Append(@, OdbcCall("SQLBindParameter", ret))]
    IN IF b.res = "panic" THEN Returned(e, "panic")
       ELSE IF b.res = "Unsupported" THEN Returned(e, "Unsupported")
       ELSE IF b.res # "nil" THEN Returned(called, b.res)
       ELSE [called EXCEPT !.i = @ + 1,
                           !.pc = IF e.i = Len(e.args) THEN "execute" ELSE "bind"]

\* Stmt.exec after the loop, without the test for SQL_NO_DATA
execExecute_NoDataIsError(e, ret) ==
    LET called == [e EXCEPT !.calls = Append(@, OdbcCall("SQLExecute", ret))]
    IN IF IsError(ret) THEN Returned(called, NewError(ret))
       ELSE [called EXCEPT !.pc = IF e.kind = "exec" THEN "rowcount" ELSE "bindcols"]

\* Stmt.exec after the loop: SQLExecute; SQL_NO_DATA is success
execExecute(e, ret) ==
    LET called == [e EXCEPT !.calls = Append(@, OdbcCall("SQLExecute", ret))]
    IN IF ret # "nodata" /\ IsError(ret) THEN Returned(called, NewError(ret))
       ELSE [called EXCEPT !.pc = IF e.kind = "exec" THEN "rowcount" ELSE "bindcols"]

\* the count SQLRowCount reports for the result set the statement is on
SQLRowCount(e) == IF e.pos <= Len(e.results) THEN e.results[e.pos] ELSE -1

\* what SQLMoreResults can answer: success while a result set follows,
\* SQL_NO_DATA when none does, an error at any time
MoreResultsRet(e) ==
    (IF e.pos < Len(e.results) THEN {"ok"} ELSE {"nodata"}) \cup ErrCodes

\* Stmt.Exec, the first half of a turn of the walk: SQLRowCount
ExecRowCount(e, ret) ==
    LET called == [e EXCEPT !.calls = Append(@, OdbcCall("SQLRowCount", ret))]
    IN IF IsError(ret) THEN Returned(called, NewError(ret))
       ELSE [called EXCEPT !.sumRowCount = @ + SQLRowCount(e),
                           !.counts = Append(@, SQLRowCount(e)),
                           !.pc = "more"]

\* Stmt.Exec, the second half: SQLMoreResults ends the walk on SQL_NO_DATA
\* alone; after a failure the driver is on the same or on the next result
ExecMoreResults(e, ret, moved) ==
    LET called == [e EXCEPT !.calls = Append(@, OdbcCall("SQLMoreResults", ret))]
    IN IF ret = "nodata"
       THEN [Returned(called, "Result") EXCEPT !.rowCount = e.sumRowCount]
       ELSE [called EXCEPT !.pc = "rowcount",
                           !.pos = IF ret = "ok" \/ moved THEN @ + 1 ELSE @]

\* Stmt.Query after exec: bindColumns, then the Rows take the statement
QueryBindColumns(e, ret) ==
    IF IsError(ret) THEN Returned(e, NewError(ret))
    ELSE [Returned(e, "Rows") EXCEPT !.usedByRows = TRUE]

\* nothing but the call moves
OnlyEx ==
    UNCHANGED <<c, closingInBG, hs, nextH, hostpc, lastRet, stmts, rowsHeld, execs,
                curExec, ctxDone, varsOS, diag, cols, gd, bcol, par, opens, attrs, tasks>>

EXArgs ==
    /\ ex.pc = "start"
    /\ ex' = execArgs(ex)
    /\ OnlyEx

EXBind ==
    /\ ex.pc = "bind"
    /\ \E ret \in {"ok", "err"} : ex' = execBind(ex, ret)
    /\ OnlyEx

\* SQL_NO_DATA is what SQLExecute returns for a statement that touched no
\* row: its one result reports the count 0
EXExecute ==
    /\ ex.pc = "execute"
    /\ \E ret \in RetCodes \cup (IF ex.results = <<0>> THEN {"nodata"} ELSE {}) :
         ex' = execExecute(ex, ret)
    /\ OnlyEx

EXRowCount ==
    /\ ex.pc = "rowcount"
    /\ Len(ex.counts) < MaxWalk
    /\ \E ret \in RetCodes : ex' = ExecRowCount(ex, ret)
    /\ OnlyEx

EXMoreResults ==
    /\ ex.pc = "more"
    /\ \E ret \in MoreResultsRet(ex) :
       \E moved \in (IF ret \in ErrCodes THEN BOOLEAN ELSE {FALSE}) :
         ex' = ExecMoreResults(ex, ret, moved)
    /\ OnlyEx

EXBindColumns ==
    /\ ex.pc = "bindcols"
    /\ \E ret \in RetCodes : ex' = QueryBindColumns(ex, ret)
    /\ OnlyEx

InitEX ==
    /\ DriverIdle
    /\ \E kind \in {"exec", "query"}, nparams \in 0..MaxArgs :
       \E args \in SeqsUpTo(ArgValues, 0, MaxArgs), results \in SeqsUpTo(RowCounts, 1, MaxResults) :
         ex = ExecCall(kind, nparams, args, results)
    /\ diag = NoCallFn /\ cols = NoCallFn /\ gd = NoCallFn
    /\ bcol = NoCallFn /\ par = NoCallFn /\ opens = NoCallFn /\ attrs = NoCallFn
    /\ tasks = NoCallFn

NextEX ==
    \/ EXArgs
    \/ EXBind
    \/ EXExecute
    \/ EXRowCount
    \/ EXMoreResults
    \/ EXBindColumns

SpecEX == InitEX /\ [][NextEX]_vars

\* ------------------------------------------------------------------------
\* C34: RowsAffected is the sum over the result sets (SpecEX)
\* ------------------------------------------------------------------------
RECURSIVE SumSeq(_)
SumSeq(q) == IF q = <<>> THEN 0 ELSE q[1] + SumSeq(Tail(q))

\* no ODBC call of the Exec returned an error
NoCallFailed == \A k \in 1..Len(ex.calls) : ex.calls[k].ret \in {"ok", "nodata"}
\* what SQLExecute returned, "none" when it was not called
ExecuteRet ==
    IF \E k \in 1..Len(ex.calls) : ex.calls[k].fn = "SQLExecute"
    THEN ex.calls[CHOOSE k \in 1..Len(ex.calls) : ex.calls[k].fn = "SQLExecute"].ret
    ELSE "none"
\* the calls made after SQLExecute
WalkCalls ==
    IF ExecuteRet = "none" THEN <<>>
    ELSE SubSeq(ex.calls, Len(ex.args) + 2, Len(ex.calls))

\* C34: an Exec that returns a Result has called SQLRowCount and then
\* SQLMoreResults in turn until SQLMoreResults returned no-data, and its
\* RowsAffected is the sum of the counts SQLRowCount reported; when no call
\* failed these are the counts of every result set of the statement, each
\* once.  An Exec whose SQLExecute returned no-data, and whose other calls
\* did not fail, returns RowsAffected 0 and no error.
C34_RowsAffected ==
    /\ (ex.pc = "done" /\ ex.res = "Result")
       => /\ ex.kind = "exec"
          /\ ex.rowCount = SumSeq(ex.counts)
          /\ Len(WalkCalls) = 2 * Len(ex.counts)
          /\ \A k \in 1..Len(WalkCalls) :
               /\ WalkCalls[k].fn = IF k % 2 = 1 THEN "SQLRowCount" ELSE "SQLMoreResults"
               /\ (WalkCalls[k].ret = "nodata") = (k = Len(WalkCalls))
          /\ NoCallFailed => ex.counts = ex.results
    /\ (ex.pc = "done" /\ ex.kind = "exec" /\ ExecuteRet = "nodata" /\ NoCallFailed)
       => ex.res = "Result" /\ ex.rowCount = 0

\* an Exec with arguments has walked MaxResults result sets with counts and
\* returned their sum
C34_Witness ==
    /\ ex.pc = "done"
    /\ ex.res = "Result"
    /\ Len(ex.args) = MaxArgs
    /\ Len(ex.results) = MaxResults
    /\ \A k \in 1..Len(ex.results) : ex.results[k] = 3
    /\ NoCallFailed
    /\ ex.rowCount = 3 * MaxResults

\* ------------------------------------------------------------------------
\* C37: SQLExecute only after every argument is bound (SpecEX)
\* ------------------------------------------------------------------------
Executed == ExecuteRet # "none"
BoundArgs == {k \in 1..Len(ex.calls) : ex.calls[k] = OdbcCall("SQLBindParameter", "ok")}
HasUnsupported == \E k \in 1..Len(ex.args) : ex.args[k].kind = "uint64"

\* C37: SQLExecute is called only after the number of arguments matched the
\* number of parameters and SQLBindParameter succeeded for every argument;
\* a call with the wrong number of arguments or with a value of
\* unsupported type returns an error, not a panic, without SQLExecute and
\* without a cursor on the statement.
C37_ArgsChecked ==
    /\ Executed => /\ Len(ex.args) = ex.nparams
                   /\ Cardinality(BoundArgs) = Len(ex.args)
    /\ (ex.pc = "done" /\ (Len(ex.args) # ex.nparams \/ HasUnsupported))
       => /\ ex.res \in {"Error", "Unsupported"}
          /\ ~Executed
          /\ ~ex.usedByRows

\* ------------------------------------------------------------------------
\* C38: the result-set walk stops when SQLMoreResults fails (SpecEX)
\* ------------------------------------------------------------------------
FailedMoreResults ==
    {k \in 1..Len(ex.calls) : ex.calls[k].fn = "SQLMoreResults" /\ ex.calls[k].ret \in ErrCodes}

\* C38: the walk ends at the first SQLMoreResults that returns no-data or
\* an error: a failed SQLMoreResults is the last call Exec makes, and no
\* SQLRowCount follows it.
C38_WalkStops ==
    \A k \in FailedMoreResults :
      /\ k = Len(ex.calls)
      /\ ex.pc = "done"

\* ------------------------------------------------------------------------
\* C35: Exec and Query on a statement with open Rows complete (SpecSTFair)
\* ------------------------------------------------------------------------
\* the goroutine that called into the driver runs whenever it can take a
\* step
SpecSTFair == SpecST /\ WF_vars(NextST)

\* C35: a Stmt.Exec or Stmt.Query that found the statement's Rows open and
\* went on to closeByStmt and the re-prepare comes back to its caller: it
\* does not stay blocked on s.mu for ever.
C35_ReprepareCompletes ==
    (hostpc = "wait" /\ execs[curExec].kind \in {"exec", "query"}) ~> (hostpc # "wait")

\* ------------------------------------------------------------------------
\* C36: the owner flags and the statement handle (SpecOS)
\* ------------------------------------------------------------------------
\* an ODBCStmt holds a handle exactly while the statement or its rows use
\* it, and that handle is one the driver manager holds
C36_FlagsAndHandle ==
    \A o \in 1..MaxHandle :
      /\ (odbc[o].h # NULL) = InUse(o)
      /\ InUse(o) => odbc[o].h = HandleOf(o) /\ odbc[o].h \in hs.alloc

\* every SQLFreeHandle is called on a handle the driver manager holds (one
\* allocated earlier, or in the call that now fails), and a release clears
\* the handle of the ODBCStmt that held it
C36_FreeStep ==
    hs'.freeLog # hs.freeLog
    => /\ Len(hs'.freeLog) = Len(hs.freeLog) + 1
       /\ SubSeq(hs'.freeLog, 1, Len(hs.freeLog)) = hs.freeLog
       /\ LET handle == hs'.freeLog[Len(hs'.freeLog)]
          IN /\ handle # NULL
             /\ handle \in hs.alloc \cup {nextH}
             /\ \A o \in 1..MaxHandle : odbc'[o].h # handle

\* C36: in every reachable state a statement's handle is set, and is an
\* allocated handle, if and only if usedByStmt or usedByRows is set; hence
\* SQLFreeHandle is never called on a null statement handle or on one that
\* was freed before, and StmtCount never goes below zero.
C36_OwnerFlags ==
    /\ [](C36_FlagsAndHandle /\ hs.StmtCount >= 0)
    /\ [](\A handle \in HandleOf(1)..HandleOf(MaxHandle) : FreeCalls(handle) <= 1)
    /\ [][C36_FreeStep]_vars

\* two statements were prepared; the first was closed with its Rows open
\* and released by Rows.Close, the second is still in use
C36_Witness ==
    /\ nextH = HandleOf(MaxHandle) + 1
    /\ ~InUse(1) /\ odbc[1].h = NULL
    /\ FreeCalls(HandleOf(1)) = 1
    /\ InUse(2) /\ odbc[2].h = HandleOf(2)
    /\ hs.StmtCount = 1
    /\ lastRet.op = "RowsClose"

\* ------------------------------------------------------------------------
\* C39: a failed Begin records no transaction (SpecOS)
\* ------------------------------------------------------------------------
\* C39: a Begin called on a connection without a transaction that returns
\* an error leaves the connection's transaction reference empty (so that
\* Conn.Close, which rolls back whenever the reference is set, issues no
\* rollback afterwards).
C39_FailedBeginNoTx ==
    [][(OSBegin /\ ~c.tx.active /\ lastRet'.res # "nil") => ~c'.tx.active]_vars

\* ------------------------------------------------------------------------
\* C40: the query goroutine's message is always received (SpecOSFair)
\* ------------------------------------------------------------------------
\* the query goroutine finishes wrapQuery, and a waitQuery whose select has
\* a ready case takes one
SpecOSFair ==
    /\ SpecOS
    /\ WF_vars(OSQueryGoroutine)
    /\ WF_vars(OSWaitQueryRecv)
    /\ WF_vars(OSWaitQueryCancelled)

Sending == {"senderr", "sendrows"}

\* a goroutine leaves its send only by waitQuery taking the message and
\* returning from Conn.QueryContext
C40_ReceiveStep ==
    \A e \in 1..MaxExec :
      (execs[e].wpc \in Sending /\ execs'[e].wpc # execs[e].wpc)
      => /\ execs'[e].wpc = "done"
         /\ e = curExec
         /\ hostpc \in {"wait", "cancelled"}
         /\ hostpc' = "idle"
         /\ lastRet'.op = "QueryContext"

\* C40: every query goroutine Conn.QueryContext starts sends one message,
\* rows or error, and waitQuery receives it, cancelled or not: the call
\* does not return while its goroutine runs or waits to send, the send
\* ends only by waitQuery's receive, and a goroutine that was started
\* always gets its message delivered.
C40_MessageDelivered ==
    /\ [](hostpc \in {"wait", "cancelled"} => execs[curExec].wpc \in {"run"} \cup Sending)
    /\ [](hostpc \notin {"wait", "cancelled"} => \A e \in 1..MaxExec : execs[e].wpc = "done")
    /\ [][C40_ReceiveStep]_vars
    /\ \A e \in 1..MaxExec : (execs[e].wpc \in {"run"} \cup Sending) ~> (execs[e].wpc = "done")

\* a cancelled Conn.QueryContext has returned after taking the goroutine's
\* message
C40_Witness ==
    /\ hostpc = "idle"
    /\ lastRet.op = "QueryContext"
    /\ execs[curExec].used
    /\ execs[curExec].cancelled
    /\ execs[curExec].wpc = "done"

====
